---- MODULE Spec2Model ----
(***************************************************************************)
(* State-machine model of recipes/ppo_full_finetune_single_device.py:      *)
(* PPOFullFinetuneRecipeSingleDevice (__init__, setup, train, ppo_step,    *)
(* save_checkpoint, _update_recipe_state).  One recipe object is           *)
(* constructed, set up and trained; after train() returns a new recipe may *)
(* be constructed that resumes from an intermediate checkpoint the first   *)
(* one wrote.  Tensors and model weights are abstracted to small integers; *)
(* the control flow, the counters, the random generators and the           *)
(* checkpoint dictionaries are modelled as the code has them.              *)
(***************************************************************************)
EXTENDS Integers, Sequences, FiniteSets, TLC

(* ------------------------------- bounds -------------------------------- *)
MaxBatch == 4
MaxGradAccum == 2
MaxNumSteps == 6
MaxDatasetRows == 4
MaxRuns == 2
RngMod == 16
WeightMod == 7
MaxGen == 4
MaxTrainSteps == 2

Seeds == {0, 1}
PpoEpochsChoices == {1, 2}
LogEveryChoices == {1, 2}

(* Keys of the checkpoint dictionaries (torchtune.training.*_KEY).          *)
MODEL_KEY == "model"
OPT_KEY == "optimizer"
SEED_KEY == "seed"
EPOCHS_KEY == "epochs_run"
TOTAL_EPOCHS_KEY == "total_epochs"
MAX_STEPS_KEY == "max_steps_per_epoch"
STEPS_KEY == "steps_run"
RNG_KEY == "rng_state"
DATALOADER_KEY == "dataloader"

(* The configurations setup() may be handed: cfg.* as read by setup,        *)
(* _setup_data and _setup_training_parameters.                             *)
Configs ==
    [ batch_size : 1..MaxBatch,
      forward_batch_size : 1..MaxBatch,
      ppo_batch_size : 1..MaxBatch,
      gradient_accumulation_steps : 1..MaxGradAccum,
      ppo_epochs : PpoEpochsChoices,
      num_steps : 0..MaxNumSteps,
      dataset_rows : 0..MaxDatasetRows,
      optimizer_in_bwd : BOOLEAN,
      lr_scheduler : BOOLEAN ]

VARIABLES
    pc,                 \* position of the recipe in recipe_main / train
    run,                \* number of recipe objects constructed so far
    err,                \* error raised by setup ("none" when none)
    warned,             \* whether _update_recipe_state emitted its warning
    resume_from_checkpoint,
    loaded,             \* policy_model_checkpoint_dict loaded by setup
    \* configuration copied into the recipe by __init__ and setup
    batch_size, forward_batch_size, ppo_batch_size, ppo_backward_batch_size,
    gradient_accumulation_steps, ppo_epochs, optimizer_in_bwd, lr_scheduler,
    log_every_n_steps, len_dataloader,
    lr_steps,           \* num_training_steps given to the lr scheduler
    \* recipe state
    seed, rng, global_rng, total_steps, steps_run, total_epochs, epochs_run,
    global_step,
    \* locals of train()
    training_completed, curr_epoch, idx, batch_start, trajectory, rewards,
    advantages, ppo_epoch, batch_idxs, i, j, backward_batch_idxs,
    trajectories,       \* local of generate_trajectory_batched
    \* models and optimizer
    weights, value_weights, grad, opt_state,
    reward_weights, ref_policy_weights,
    \* checkpointers' stores
    ckpts, value_ckpts,
    \* observation of the run
    phase, bwd_count, opt_steps, mb_bwd, mb_opt, mb_sched, mb_fused, mb_done,
    mb_raw,             \* what self._loss_fn returned for each microbatch
    batch_ppo_stats, ppo_stats,     \* locals of train()
    backward_passes,    \* the calls of ppo_step of the training step
    draws,
    sampled, ref_sampled, configured, start_epoch, start_steps,
    \* one row of a sub-batch through generate_trajectory, get_rewards_ppo and
    \* ppo_step (the tensors of the recipe, per row)
    tpc,                \* position in generate_trajectory / ppo_step
    train_step,         \* training step the row belongs to
    max_generated_tokens, enable_kv_cache, penalise_no_eos,
    min_response_length, reward_penalty,
    kv_cache, kv_acquired,          \* the policy model's key-value cache
    generated,          \* query_responses[:, context_length:] as generated
    responses, logprobs, ref_logprobs, values, response_padding_masks,
    value_padding_masks, value_seq_idxs, scores, model_score, seq_lens,
    kl, pi_logprobs, phi_values

cfgVars == << batch_size, forward_batch_size, ppo_batch_size,
              ppo_backward_batch_size, gradient_accumulation_steps, ppo_epochs,
              optimizer_in_bwd, lr_scheduler, log_every_n_steps, len_dataloader,
              lr_steps >>
recipeVars == << seed, rng, global_rng, total_steps, steps_run, total_epochs,
                 epochs_run, global_step >>
localVars == << training_completed, curr_epoch, idx, batch_start, trajectory,
                rewards, advantages, ppo_epoch, batch_idxs, i, j,
                backward_batch_idxs, trajectories >>
modelVars == << weights, value_weights, grad, opt_state, reward_weights,
               ref_policy_weights >>
storeVars == << ckpts, value_ckpts >>
mbVars == << mb_bwd, mb_opt, mb_sched, mb_fused, mb_done, mb_raw,
            batch_ppo_stats, ppo_stats, backward_passes >>
obsVars == << phase, bwd_count, opt_steps, mbVars, draws, sampled, ref_sampled, configured, start_epoch,
              start_steps >>
loopVars == << pc, run, err, warned, resume_from_checkpoint, loaded, cfgVars,
               recipeVars, localVars, modelVars, storeVars, obsVars >>
hyperVars == << max_generated_tokens, enable_kv_cache, penalise_no_eos,
               min_response_length, reward_penalty >>
tensorVars == << generated, responses, logprobs, ref_logprobs, values,
                response_padding_masks, value_padding_masks, value_seq_idxs,
                scores, model_score, seq_lens, kl, pi_logprobs, phi_values >>
rowVars == << tpc, train_step, hyperVars, kv_cache, kv_acquired, tensorVars >>
vars == << loopVars, rowVars >>

(* ------------------------------ helpers -------------------------------- *)
Min(a, b) == IF a < b THEN a ELSE b

\* A slice that always starts at the first element.
SliceFromFirst(s, a, n) == SubSeq(s, 1, Min(n, Len(s)))

\* Python's s[a : a + n] on a sequence (0-based start, clipped at the end).
Slice(s, a, n) == SubSeq(s, a + 1, Min(a + n, Len(s)))

\* math.ceil(a / b) for b > 0.
Ceil(a, b) == (a + b - 1) \div b

\* State of a torch.Generator right after manual_seed(s).
SeedState(s) == s % RngMod

\* A generator whose state a draw leaves as it was.
AdvanceNoDraw(g) == g

\* State of a generator after one draw.
Advance(g) == (g * 5 + 3) % RngMod

RECURSIVE PermOf(_, _)
\* The permutation of `items` a generator in state g produces.
PermOf(items, g) ==
    IF Len(items) = 0 THEN << >>
    ELSE LET n == Len(items)
             k == (g % n) + 1
             rest == SubSeq(items, 1, k - 1) \o SubSeq(items, k + 1, n)
         IN << items[k] >> \o PermOf(rest, g \div n)

\* torch.randperm(n): a permutation of 0 .. n-1 drawn from generator state g.
randperm(n, g) == PermOf([x \in 1..n |-> x - 1], g)

\* len(StatefulDataLoader(ds, batch_size=bs, drop_last=True)).
DataloaderLen(rows, bs) == rows \div bs

\* The token generation.generate samples for the prompt p with the policy
\* weights w and the generator in state g.
SampleToken(g, w, p) == (g + w + p) % RngMod

RECURSIVE SumSeq(_)
SumSeq(s) == IF Len(s) = 0 THEN 0 ELSE s[1] + SumSeq(Tail(s))

\* Gradient contribution of the rows `rows` (0-based ids into the trajectory).
BackwardGrad(traj, rows, w) ==
    SumSeq([k \in 1..Len(rows) |-> traj[rows[k] + 1] + w + 1])

EmptyDict == [k \in {} |-> 0]

RECURSIVE Factorial(_)
Factorial(n) == IF n <= 1 THEN 1 ELSE n * Factorial(n - 1)

\* Unit of the statistics: every value the loss function returns is a multiple
\* of it, so that the division by gradient_accumulation_steps is exact.
StatUnit == Factorial(MaxGradAccum)

\* The fields of rlhf.PPOStats.
StatFields ==
    { "loss", "policy_loss", "value_loss", "ratios", "clipfrac",
      "approx_policy_kls" }

\* What self._loss_fn returns for the rows `rows` of the trajectory with the
\* policy weights w: (loss, policy_loss, value_loss, ratios, clipfrac).
LossFn(traj, rows, w) ==
    LET b == BackwardGrad(traj, rows, w) % 3
    IN [ loss |-> (b + 2) * StatUnit,
         policy_loss |-> (b + 1) * StatUnit,
         value_loss |-> StatUnit,
         ratios |-> (1 + (w % 2)) * StatUnit,
         clipfrac |-> (b % 2) * StatUnit ]

\* approx_policy_kls of ppo_step: 0.5 * mean((pi_logprobs - logprobs)^2).
ApproxPolicyKls(traj, rows, w) == ((w + Len(rows)) % 2) * StatUnit

\* ppo_step's return value with the loss divided a second time.
PPOStatsLossScaledTwice(raw, gas) ==
    [ loss |-> (raw.loss \div gas) \div gas,
      policy_loss |-> raw.policy_loss \div gas,
      value_loss |-> raw.value_loss \div gas,
      ratios |-> raw.ratios \div gas,
      clipfrac |-> raw.clipfrac \div gas,
      approx_policy_kls |-> raw.approx_policy_kls \div gas ]

\* The PPOStats ppo_step returns: loss was divided in place before the
\* backward pass, the other fields are divided in the return expression.
PPOStats(raw, gas) ==
    [ loss |-> raw.loss \div gas,
      policy_loss |-> raw.policy_loss \div gas,
      value_loss |-> raw.value_loss \div gas,
      ratios |-> raw.ratios \div gas,
      clipfrac |-> raw.clipfrac \div gas,
      approx_policy_kls |-> raw.approx_policy_kls \div gas ]

\* PPOStats(*map(sum, zip(*batch_ppo_stats))).
SumStats(stats) ==
    [ f \in StatFields |-> SumSeq([k \in 1..Len(stats) |-> stats[k][f]]) ]

\* The four models of the recipe.
Models == { "policy", "value", "reward", "ref_policy" }

\* The models whose parameters _setup_optimizer hands to the optimizer (or to
\* the per-parameter optimizers of the backward hooks).
OptimizedModels == { "policy", "value" }

\* The models whose parameters _setup_models sets requires_grad = False on.
FrozenModels == { "reward", "ref_policy" }

\* StepParam of an optimizer that updates the parameters of every model.
StepParamEveryModel(m, w, g) == (w + g) % WeightMod

\* The parameters of model m after an optimizer update with gradient g: only
\* parameters the optimizer holds and that have a gradient change.
StepParam(m, w, g) ==
    IF m \in OptimizedModels /\ m \notin FrozenModels
      THEN (w + g) % WeightMod
      ELSE w

\* State dicts ref_policy_checkpointer and reward_checkpointer load.
\* The optimizer state of a recipe whose optimizers have not stepped: one
\* step count for the parameters of each optimized model.
NoOptState == [ m \in OptimizedModels |-> 0 ]

\* The optimizer state after n more steps of every optimizer.
OptimizersStepped(os, n) == [ m \in DOMAIN os |-> os[m] + n ]

\* The models whose per-parameter optimizers self._optim_ckpt_wrapper holds:
\* _setup_optimizer assigns it the wrapper made for the policy model and then
\* the wrapper made for the value model, which replaces the first.
OptimCkptWrapperModels == { "value" }

\* policy_ckpt_dict[OPT_KEY] as save_checkpoint fills it: the state_dict of
\* the optimizer over both models, or that of the in-backward wrapper.
OptStateDict(in_bwd) ==
    IF ~in_bwd THEN opt_state
    ELSE [ m \in OptimCkptWrapperModels |-> opt_state[m] ]

\* load_state_dict of the checkpoint's optimizer state in _setup_optimizer:
\* the optimizers the state covers are restored, the others start afresh.
LoadOptState(sd) ==
    [ m \in OptimizedModels |-> IF m \in DOMAIN sd THEN sd[m] ELSE 0 ]

RefPolicyCheckpoint == 0
RewardCheckpoint == 3

\* Value of `configured` (cfg.num_steps and the seed, total_steps and
\* total_epochs the recipe had from its configuration when setup ran) outside
\* setup.
NoConfig == [seed |-> 0, total_steps |-> 0, total_epochs |-> 0, num_steps |-> 0]

\* The keys _update_recipe_state reads from the checkpoint.
RequiredKeys ==
    { SEED_KEY, RNG_KEY, STEPS_KEY, MAX_STEPS_KEY, TOTAL_EPOCHS_KEY, EPOCHS_KEY }

\* What reaches the caller when a key is missing: the handler's
\* `raise KeyError from e(...)` calls the caught KeyError instance.
KeyErrorHandlerRaises == "TypeError: 'KeyError' object is not callable"

(* ------------------------- __init__ and setup -------------------------- *)
\* State after PPOFullFinetuneRecipeSingleDevice.__init__(cfg) of a fresh run:
\* cfg.seed, cfg.log_every_n_steps and cfg.gradient_accumulation_steps are
\* read there; the checkpoint setup() will load holds the base model only.
RecipeInit ==
    /\ pc = "constructed"
    /\ run = 1
    /\ err = "none"
    /\ warned = FALSE
    /\ resume_from_checkpoint = FALSE
    /\ loaded = (MODEL_KEY :> 0)
    /\ seed \in Seeds
    /\ rng = SeedState(seed)
    /\ global_rng = SeedState(seed)
    /\ gradient_accumulation_steps \in 1..MaxGradAccum
    /\ log_every_n_steps \in LogEveryChoices
    /\ batch_size = 0 /\ forward_batch_size = 0 /\ ppo_batch_size = 0
    /\ ppo_backward_batch_size = 0 /\ ppo_epochs = 0
    /\ optimizer_in_bwd = FALSE /\ lr_scheduler = FALSE /\ len_dataloader = 0
    /\ lr_steps = 0
    /\ total_steps = 0 /\ steps_run = 0 /\ total_epochs = 0 /\ epochs_run = 0
    /\ global_step = 0
    /\ training_completed = FALSE /\ curr_epoch = 0 /\ idx = 0
    /\ batch_start = 0 /\ trajectory = << >> /\ rewards = << >>
    /\ advantages = << >> /\ ppo_epoch = 0 /\ batch_idxs = << >>
    /\ i = 0 /\ j = 0 /\ backward_batch_idxs = << >>
    /\ trajectories = << >>
    /\ weights = 0 /\ value_weights = 0 /\ grad = 0 /\ opt_state = NoOptState
    /\ reward_weights = 0 /\ ref_policy_weights = 0
    /\ ckpts = << >> /\ value_ckpts = << >>
    /\ phase = "NONE" /\ bwd_count = 0 /\ opt_steps = 0
    /\ mb_bwd = 0 /\ mb_opt = 0 /\ mb_sched = 0 /\ mb_fused = 0
    /\ mb_done = FALSE
    /\ mb_raw = << >> /\ batch_ppo_stats = << >> /\ ppo_stats = << >>
    /\ backward_passes = << >>
    /\ draws = {} /\ sampled = << >> /\ ref_sampled = << >>
    /\ configured = NoConfig
    /\ start_epoch = 0 /\ start_steps = 0

\* No tensors exist before the first call of generate_trajectory.
NoTensors ==
    /\ generated = << >> /\ responses = << >> /\ logprobs = << >>
    /\ ref_logprobs = << >> /\ values = << >>
    /\ response_padding_masks = << >> /\ value_padding_masks = << >>
    /\ value_seq_idxs = 0 /\ scores = 0 /\ model_score = 0 /\ seq_lens = 0
    /\ kl = << >> /\ pi_logprobs = << >> /\ phi_values = << >>

\* The training loop is followed at the level of batches: no row is traced.
RowIdle ==
    /\ tpc = "idle" /\ train_step = 0
    /\ max_generated_tokens = 0 /\ enable_kv_cache = FALSE
    /\ penalise_no_eos = FALSE /\ min_response_length = 0
    /\ reward_penalty = 0
    /\ kv_cache = FALSE /\ kv_acquired = 0
    /\ NoTensors

Init == RecipeInit /\ RowIdle

\* SetupError without the check of gradient accumulation against
\* optimizer_in_bwd.
SetupErrorNoInBwdCheck(c) ==
    IF c.batch_size % c.forward_batch_size # 0
      THEN "ValueError: batch_size / forward_batch_size"
    ELSE IF c.batch_size % c.ppo_batch_size # 0
      THEN "ValueError: batch_size / ppo_batch_size"
    ELSE IF c.ppo_batch_size % c.gradient_accumulation_steps # 0
      THEN "ValueError: ppo_batch_size / gradient_accumulation_steps"
    ELSE IF c.num_steps \div c.batch_size = 0
      THEN "ValueError: num_steps"
    ELSE "none"

\* SetupError that also rejects a budget of exactly one batch.
SetupErrorStrictBudget(c) ==
    IF c.batch_size % c.forward_batch_size # 0
      THEN "ValueError: batch_size / forward_batch_size"
    ELSE IF c.batch_size % c.ppo_batch_size # 0
      THEN "ValueError: batch_size / ppo_batch_size"
    ELSE IF c.ppo_batch_size % c.gradient_accumulation_steps # 0
      THEN "ValueError: ppo_batch_size / gradient_accumulation_steps"
    ELSE IF c.gradient_accumulation_steps > 1 /\ c.optimizer_in_bwd
      THEN "RuntimeError: gradient accumulation with optimizer in bwd"
    ELSE IF c.num_steps <= c.batch_size
      THEN "ValueError: num_steps"
    ELSE "none"

\* SetupError without the batch_size % ppo_batch_size check.
SetupErrorNoPpoCheck(c) ==
    IF c.batch_size % c.forward_batch_size # 0
      THEN "ValueError: batch_size / forward_batch_size"
    ELSE IF c.ppo_batch_size % c.gradient_accumulation_steps # 0
      THEN "ValueError: ppo_batch_size / gradient_accumulation_steps"
    ELSE IF c.gradient_accumulation_steps > 1 /\ c.optimizer_in_bwd
      THEN "RuntimeError: gradient accumulation with optimizer in bwd"
    ELSE IF c.num_steps \div c.batch_size = 0
      THEN "ValueError: num_steps"
    ELSE "none"

\* The error _setup_training_parameters raises for cfg record c, "none" when
\* it raises none; the checks in the order of the code.
SetupError(c) ==
    IF c.batch_size % c.forward_batch_size # 0
      THEN "ValueError: batch_size / forward_batch_size"
    ELSE IF c.batch_size % c.ppo_batch_size # 0
      THEN "ValueError: batch_size / ppo_batch_size"
    ELSE IF c.ppo_batch_size % c.gradient_accumulation_steps # 0
      THEN "ValueError: ppo_batch_size / gradient_accumulation_steps"
    ELSE IF c.gradient_accumulation_steps > 1 /\ c.optimizer_in_bwd
      THEN "RuntimeError: gradient accumulation with optimizer in bwd"
    ELSE IF c.num_steps \div c.batch_size = 0
      THEN "ValueError: num_steps"
    ELSE "none"

\* Errors raised before total_steps and total_epochs are assigned.
EarlyErrors ==
    { "ValueError: batch_size / forward_batch_size",
      "ValueError: batch_size / ppo_batch_size",
      "ValueError: ppo_batch_size / gradient_accumulation_steps",
      "RuntimeError: gradient accumulation with optimizer in bwd" }

\* The condition of the warning in _update_recipe_state, as Python evaluates
\* it: `or` stops at the first operand that is true.
DriftCondition(ckpt_dict, cur) ==
    IF cur.seed # ckpt_dict[SEED_KEY] THEN TRUE
    ELSE IF cur.total_steps # ckpt_dict[MAX_STEPS_KEY] THEN TRUE
    ELSE cur.total_epochs # ckpt_dict[TOTAL_EPOCHS_KEY]

\* Whether evaluating the condition of the warning raises KeyError.
DriftConditionRaises(ckpt_dict, cur) ==
    \/ SEED_KEY \notin DOMAIN ckpt_dict
    \/ /\ cur.seed = ckpt_dict[SEED_KEY]
       /\ \/ MAX_STEPS_KEY \notin DOMAIN ckpt_dict
          \/ /\ cur.total_steps = ckpt_dict[MAX_STEPS_KEY]
             /\ TOTAL_EPOCHS_KEY \notin DOMAIN ckpt_dict

\* The keys in the order the assignments of _update_recipe_state read them.
AssignmentOrder ==
    << SEED_KEY, RNG_KEY, STEPS_KEY, MAX_STEPS_KEY, TOTAL_EPOCHS_KEY,
       EPOCHS_KEY >>

\* Number of assignments of _update_recipe_state that complete before a
\* KeyError (all six when no key is missing).
AssignmentsDone(ckpt_dict, cur) ==
    IF DriftConditionRaises(ckpt_dict, cur) THEN 0
    ELSE LET missing == { k \in 1..6 : AssignmentOrder[k] \notin DOMAIN ckpt_dict }
         IN IF missing = {} THEN 6
            ELSE (CHOOSE k \in missing : \A m \in missing : k <= m) - 1

\* UpdateRecipeState that warns but keeps the configured total_steps.
UpdateRecipeStateKeepTotalSteps(ckpt_dict, cur) ==
    LET n == AssignmentsDone(ckpt_dict, cur)
    IN [ raised |-> n < 6,
         warned |-> /\ ~DriftConditionRaises(ckpt_dict, cur)
                    /\ DriftCondition(ckpt_dict, cur),
         reseeded |-> n >= 1,
         seed |-> IF n >= 1 THEN ckpt_dict[SEED_KEY] ELSE cur.seed,
         rng |-> IF n >= 2 THEN ckpt_dict[RNG_KEY] ELSE rng,
         steps_run |-> IF n >= 3 THEN ckpt_dict[STEPS_KEY] ELSE steps_run,
         total_steps |-> cur.total_steps,
         total_epochs |-> IF n >= 5 THEN ckpt_dict[TOTAL_EPOCHS_KEY]
                                    ELSE cur.total_epochs,
         epochs_run |-> IF n >= 6 THEN ckpt_dict[EPOCHS_KEY] ELSE epochs_run ]

\* _update_recipe_state(ckpt_dict) on a recipe whose configured seed,
\* total_steps and total_epochs are cur: whether it raised, the warning, and
\* the field values it leaves (the assignments before a missing key are kept).
UpdateRecipeState(ckpt_dict, cur) ==
    LET n == AssignmentsDone(ckpt_dict, cur)
    IN [ raised |-> n < 6,
         warned |-> /\ ~DriftConditionRaises(ckpt_dict, cur)
                    /\ DriftCondition(ckpt_dict, cur),
         reseeded |-> n >= 1,
         seed |-> IF n >= 1 THEN ckpt_dict[SEED_KEY] ELSE cur.seed,
         rng |-> IF n >= 2 THEN ckpt_dict[RNG_KEY] ELSE rng,
         steps_run |-> IF n >= 3 THEN ckpt_dict[STEPS_KEY] ELSE steps_run,
         total_steps |-> IF n >= 4 THEN ckpt_dict[MAX_STEPS_KEY]
                                   ELSE cur.total_steps,
         total_epochs |-> IF n >= 5 THEN ckpt_dict[TOTAL_EPOCHS_KEY]
                                    ELSE cur.total_epochs,
         epochs_run |-> IF n >= 6 THEN ckpt_dict[EPOCHS_KEY] ELSE epochs_run ]

\* PpoBackwardBatchSize that ignores gradient accumulation.
PpoBackwardBatchSizeWholeMinibatch(pbs, gas) == pbs

\* The 'micro batch size' of one backward pass.
PpoBackwardBatchSize(pbs, gas) == pbs \div gas

\* GlobalStepOf counting one step per PPO epoch instead of one per minibatch.
GlobalStepOfPerEpoch(steps, epochs, bs, pbs) == steps * epochs

\* global_step as setup computes it from steps_run.
GlobalStepOf(steps, epochs, bs, pbs) == steps * epochs * (bs \div pbs)

\* lr_steps counting one scheduler step per minibatch of a single PPO epoch.
LrStepsOfOnePpoEpoch(total, epochs, bs, pbs) == total * (bs \div pbs)

\* lr_steps as setup computes it: the num_training_steps of the scheduler.
LrSteps(total, epochs, bs, pbs) == total * epochs * (bs \div pbs)

\* setup(cfg).
Setup(c) ==
    /\ pc = "constructed"
    /\ c.gradient_accumulation_steps = gradient_accumulation_steps
    /\ LET e0 == SetupError(c)
           n == DataloaderLen(c.dataset_rows, c.batch_size)
           ts == c.num_steps \div c.batch_size
           batches_per_epoch == IF n > 1 THEN n ELSE 1
           te == Ceil(ts, batches_per_epoch)
           cur == [seed |-> seed,
                   total_steps |-> IF e0 \in EarlyErrors THEN 0 ELSE ts,
                   total_epochs |-> IF e0 \in EarlyErrors THEN 0 ELSE te,
                   num_steps |-> c.num_steps]
           upd == IF e0 = "none" /\ resume_from_checkpoint
                    THEN UpdateRecipeState(loaded, cur)
                    ELSE [ raised |-> FALSE, warned |-> FALSE,
                           reseeded |-> FALSE, seed |-> seed, rng |-> rng,
                           steps_run |-> steps_run,
                           total_steps |-> cur.total_steps,
                           total_epochs |-> cur.total_epochs,
                           epochs_run |-> epochs_run ]
           e == IF upd.raised THEN KeyErrorHandlerRaises ELSE e0
       IN /\ err' = e
          /\ pc' = IF e = "none" THEN "train" ELSE "setup_failed"
          /\ batch_size' = c.batch_size
          /\ forward_batch_size' = c.forward_batch_size
          /\ ppo_batch_size' = c.ppo_batch_size
          /\ ppo_epochs' = c.ppo_epochs
          /\ ppo_backward_batch_size' =
               PpoBackwardBatchSize(c.ppo_batch_size,
                                    c.gradient_accumulation_steps)
          /\ optimizer_in_bwd' = c.optimizer_in_bwd
          /\ lr_scheduler' = c.lr_scheduler
          /\ len_dataloader' = n
          /\ weights' = loaded[MODEL_KEY]
          /\ ref_policy_weights' = RefPolicyCheckpoint
          /\ reward_weights' = RewardCheckpoint
          /\ opt_state' = IF resume_from_checkpoint
                            THEN LoadOptState(loaded[OPT_KEY]) ELSE NoOptState
          /\ configured' = cur
          /\ warned' = upd.warned
          /\ seed' = upd.seed
          /\ rng' = upd.rng
          /\ global_rng' = IF upd.reseeded
                             THEN SeedState(upd.seed) ELSE global_rng
          /\ steps_run' = upd.steps_run
          /\ total_steps' = upd.total_steps
          /\ total_epochs' = upd.total_epochs
          /\ epochs_run' = upd.epochs_run
          /\ global_step' = IF e = "none"
                              THEN GlobalStepOf(upd.steps_run, c.ppo_epochs,
                                                c.batch_size, c.ppo_batch_size)
                              ELSE global_step
          /\ lr_steps' = IF e = "none"
                           THEN LrSteps(upd.total_steps, c.ppo_epochs,
                                        c.batch_size, c.ppo_batch_size)
                           ELSE lr_steps
          /\ start_epoch' = upd.epochs_run
          /\ start_steps' = upd.steps_run
    /\ UNCHANGED << rowVars, run, resume_from_checkpoint, loaded,
                    gradient_accumulation_steps, log_every_n_steps, localVars,
                    value_weights, grad, storeVars, phase, bwd_count,
                    opt_steps, mbVars, draws,
                    sampled, ref_sampled >>

(* ------------------------------- train --------------------------------- *)
\* train(), up to the first evaluation of the epoch loop: the gradients are
\* zeroed unless the optimizer runs in the backward pass.
TrainStart ==
    /\ pc = "train"
    /\ pc' = "epoch_loop"
    /\ grad' = IF ~optimizer_in_bwd THEN 0 ELSE grad
    /\ bwd_count' = IF ~optimizer_in_bwd THEN 0 ELSE bwd_count
    /\ training_completed' = FALSE
    /\ curr_epoch' = epochs_run
    /\ configured' = NoConfig
    /\ UNCHANGED << rowVars, run, err, warned, resume_from_checkpoint, loaded,
                    cfgVars,
                    recipeVars, idx, batch_start, trajectory, trajectories, rewards,
                    advantages, ppo_epoch, batch_idxs, i, j,
                    backward_batch_idxs, weights, value_weights, opt_state,
                    reward_weights, ref_policy_weights,
                    storeVars, phase, opt_steps, mbVars, draws, sampled,
                    ref_sampled, start_epoch, start_steps >>

\* for curr_epoch in range(self._epochs_run, self._total_epochs): enter the
\* epoch, or leave the loop and return.
NextEpoch ==
    /\ pc = "epoch_loop"
    /\ IF curr_epoch < total_epochs
         THEN pc' = "batch_loop" /\ idx' = 0
         ELSE pc' = "done" /\ idx' = idx
    /\ UNCHANGED << rowVars, run, err, warned, resume_from_checkpoint, loaded,
                    cfgVars,
                    recipeVars, training_completed, curr_epoch, batch_start,
                    trajectory, trajectories, rewards, advantages, ppo_epoch, batch_idxs, i,
                    j, backward_batch_idxs, modelVars, storeVars, obsVars >>

\* for idx, batch in enumerate(self._dataloader): fetch the next batch, or
\* leave the loop when the dataloader is exhausted.
NextBatch ==
    /\ pc = "batch_loop"
    /\ IF idx < len_dataloader
         THEN /\ pc' = "generate"
              /\ batch_start' = 0
              /\ phase' = "NONE"
              /\ opt_steps' = 0
         ELSE /\ pc' = "epoch_end"
              /\ UNCHANGED << batch_start, phase, opt_steps >>
    /\ UNCHANGED << rowVars, run, err, warned, resume_from_checkpoint, loaded,
                    cfgVars,
                    recipeVars, training_completed, curr_epoch, idx,
                    trajectory, trajectories, rewards, advantages, ppo_epoch, batch_idxs, i,
                    j, backward_batch_idxs, modelVars, storeVars, bwd_count,
                    mbVars, draws, sampled,
                    ref_sampled, configured, start_epoch, start_steps >>

\* Sub-batches that all start at the first row of the batch.
SubBatchRowsFromFirstRow(start, n, total) ==
    [ k \in 1..(Min(n, total)) |-> k - 1 ]

\* input_ids[batch_start : batch_start + self._forward_batch_size]: the rows
\* of the batch a call of generate_trajectory is given.
SubBatchRows(start, n, total) ==
    [ k \in 1..(Min(start + n, total) - start) |-> start + k - 1 ]

\* Whether autograd records the forward passes of generate_trajectory: the
\* loop of generate_trajectory_batched runs under torch.no_grad().
GradEnabled == FALSE

\* One iteration of generate_trajectory_batched: generate_trajectory on the
\* rows batch_start .. batch_start + forward_batch_size - 1 of the batch; after
\* the last one the Trajectory is the concatenation of those of the calls.
GenerateTrajectory ==
    /\ pc = "generate"
    /\ LET rows == SubBatchRows(batch_start, forward_batch_size, batch_size)
           tokens == [k \in 1..Len(rows) |->
                        SampleToken(rng, weights, idx * batch_size + rows[k])]
           traj == IF batch_start = 0 THEN tokens ELSE trajectory \o tokens
           more == batch_start + forward_batch_size < batch_size
           call == [ rows |-> rows, tokens |-> tokens, rng |-> rng,
                     grad_enabled |-> GradEnabled ]
       IN /\ trajectory' = traj
          /\ trajectories' = IF batch_start = 0 THEN << call >>
                                ELSE Append(trajectories, call)
          /\ pc' = IF more THEN "generate" ELSE "rewards"
          /\ sampled' = IF more THEN sampled ELSE Append(sampled, traj)
    /\ rng' = Advance(rng)
    /\ draws' = draws \cup {[use |-> "sampling", gen |-> "_rng"]}
    /\ batch_start' = batch_start + forward_batch_size
    /\ phase' = "GENERATE"
    /\ UNCHANGED << rowVars, run, err, warned, resume_from_checkpoint, loaded,
                    cfgVars,
                    seed, global_rng, total_steps, steps_run, total_epochs,
                    epochs_run, global_step, training_completed, curr_epoch,
                    idx, rewards, advantages, ppo_epoch, batch_idxs, i, j,
                    backward_batch_idxs, modelVars, storeVars, bwd_count,
                    opt_steps, mbVars, ref_sampled,
                    configured, start_epoch, start_steps >>

\* GetRewards after which the PPO epochs start without advantage estimation.
GetRewardsThenPpo ==
    /\ pc = "rewards"
    /\ pc' = "shuffle"
    /\ rewards' = trajectory
    /\ ppo_epoch' = 0
    /\ phase' = "COMPUTE_REWARDS"
    /\ UNCHANGED << rowVars, run, err, warned, resume_from_checkpoint, loaded,
                    cfgVars,
                    recipeVars, training_completed, curr_epoch, idx,
                    batch_start, trajectory, trajectories, advantages, batch_idxs,
                    i, j, backward_batch_idxs, modelVars, storeVars, bwd_count,
                    opt_steps, mbVars, draws, sampled, ref_sampled, configured,
                    start_epoch, start_steps >>

\* rlhf.get_rewards_ppo on the trajectory.
GetRewards ==
    /\ pc = "rewards"
    /\ pc' = "advantages"
    /\ rewards' = trajectory
    /\ phase' = "COMPUTE_REWARDS"
    /\ UNCHANGED << rowVars, run, err, warned, resume_from_checkpoint, loaded,
                    cfgVars,
                    recipeVars, training_completed, curr_epoch, idx,
                    batch_start, trajectory, trajectories, advantages, ppo_epoch, batch_idxs,
                    i, j, backward_batch_idxs, modelVars, storeVars, bwd_count,
                    opt_steps, mbVars, draws,
                    sampled, ref_sampled, configured, start_epoch,
                    start_steps >>

\* rlhf.estimate_advantages on the rewards, then the first evaluation of
\* for _ in range(self._ppo_epochs).
EstimateAdvantages ==
    /\ pc = "advantages"
    /\ pc' = IF 0 < ppo_epochs THEN "shuffle" ELSE "log"
    /\ advantages' = rewards
    /\ ppo_epoch' = 0
    /\ ppo_stats' = << >>
    /\ backward_passes' = << >>
    /\ phase' = "ESTIMATE_ADVANTAGES"
    /\ UNCHANGED << rowVars, run, err, warned, resume_from_checkpoint, loaded,
                    cfgVars,
                    recipeVars, training_completed, curr_epoch, idx,
                    batch_start, trajectory, trajectories, rewards, batch_idxs, i, j,
                    backward_batch_idxs, modelVars, storeVars, bwd_count,
                    opt_steps, mb_bwd, mb_opt, mb_sched, mb_fused, mb_done,
                    mb_raw, batch_ppo_stats, draws,
                    sampled, ref_sampled, configured, start_epoch,
                    start_steps >>

\* batch_idxs = torch.randperm(self.batch_size, device=self._device): no
\* generator is passed, so the draw comes from torch's default generator.
Shuffle ==
    /\ pc = "shuffle"
    /\ pc' = "ppo_step"
    /\ batch_idxs' = randperm(batch_size, global_rng)
    /\ global_rng' = Advance(global_rng)
    /\ draws' = draws \cup {[use |-> "shuffle", gen |-> "default"]}
    /\ i' = 0
    /\ j' = 0
    /\ UNCHANGED << rowVars, run, err, warned, resume_from_checkpoint, loaded,
                    cfgVars,
                    seed, rng, total_steps, steps_run, total_epochs,
                    epochs_run, global_step, training_completed, curr_epoch,
                    idx, batch_start, trajectory, trajectories, rewards, advantages,
                    ppo_epoch, backward_batch_idxs, modelVars, storeVars,
                    phase, bwd_count, opt_steps, mbVars, sampled, ref_sampled, configured, start_epoch,
                    start_steps >>

\* Number of self._optimizer.step() calls the loop makes after a minibatch.
OptimizerStepCalls(in_bwd) == IF ~in_bwd THEN 1 ELSE 0

\* SchedulerStepCalls of a loop that steps the scheduler once per microbatch.
SchedulerStepCallsPerMicrobatch(sched) ==
    IF sched THEN gradient_accumulation_steps ELSE 0

\* Number of self._lr_scheduler.step() calls the loop makes after a minibatch.
SchedulerStepCalls(sched) == IF sched THEN 1 ELSE 0

\* One iteration of the microbatch loop: the slice of the minibatch, and
\* ppo_step on it (forward passes, loss, loss.backward()).  With the optimizer
\* in the backward pass the hooks registered by _setup_optimizer update the
\* parameters and clear the gradients during loss.backward().
PpoStep ==
    /\ pc = "ppo_step"
    /\ LET mini_batch_idxs == Slice(batch_idxs, i, ppo_batch_size)
           bb == Slice(mini_batch_idxs, j, ppo_backward_batch_size)
           g == BackwardGrad(trajectory, bb, weights)
           first == (j = 0)
           raw == LossFn(trajectory, bb, weights) @@
                  [ f \in {"approx_policy_kls"} |->
                      ApproxPolicyKls(trajectory, bb, weights) ]
       IN /\ backward_batch_idxs' = bb
          /\ IF optimizer_in_bwd
               THEN /\ weights' = StepParam("policy", weights, g)
                    /\ value_weights' = StepParam("value", value_weights, g)
                    /\ reward_weights' = StepParam("reward", reward_weights, g)
                    /\ ref_policy_weights' =
                         StepParam("ref_policy", ref_policy_weights, g)
                    /\ opt_state' = OptimizersStepped(opt_state, 1)
                    /\ grad' = grad
                    /\ bwd_count' = 0
               ELSE /\ grad' = (grad + g) % WeightMod
                    /\ bwd_count' = bwd_count + 1
                    /\ UNCHANGED << weights, value_weights, opt_state,
                                    reward_weights, ref_policy_weights >>
          /\ mb_raw' = IF first THEN << raw >> ELSE Append(mb_raw, raw)
          /\ batch_ppo_stats' =
               Append(IF first THEN << >> ELSE batch_ppo_stats,
                      PPOStats(raw, gradient_accumulation_steps))
          /\ mb_bwd' = IF first THEN 1 ELSE mb_bwd + 1
          /\ mb_opt' = IF first THEN 0 ELSE mb_opt
          /\ mb_sched' = IF first THEN 0 ELSE mb_sched
          /\ mb_fused' = (IF first THEN 0 ELSE mb_fused)
                           + (IF optimizer_in_bwd THEN 1 ELSE 0)
          /\ mb_done' = FALSE
          /\ backward_passes' =
               Append(backward_passes,
                      [ ppo_epoch |-> ppo_epoch, i |-> i, j |-> j,
                        rows |-> bb ])
    /\ j' = j + ppo_backward_batch_size
    /\ pc' = IF j + ppo_backward_batch_size < ppo_batch_size
               THEN "ppo_step" ELSE "optimizer_step"
    /\ phase' = "PPO_STEP"
    /\ UNCHANGED << rowVars, run, err, warned, resume_from_checkpoint, loaded,
                    cfgVars,
                    recipeVars, training_completed, curr_epoch, idx,
                    batch_start, trajectory, trajectories, rewards, advantages, ppo_epoch,
                    batch_idxs, i, storeVars, opt_steps, ppo_stats, draws,
                    sampled, ref_sampled, configured, start_epoch,
                    start_steps >>

\* The end of a minibatch: the statistics are summed, the optimizer steps and
\* the gradients are zeroed (unless the optimizer runs in the backward pass),
\* the scheduler steps (when there is one), global_step is incremented; then
\* the minibatch loop and the ppo-epoch loop are advanced.
OptimizerStep ==
    /\ pc = "optimizer_step"
    /\ LET n == OptimizerStepCalls(optimizer_in_bwd)
       IN /\ IF n > 0
               THEN /\ weights' = StepParam("policy", weights, grad)
                    /\ value_weights' = StepParam("value", value_weights, grad)
                    /\ reward_weights' =
                         StepParam("reward", reward_weights, grad)
                    /\ ref_policy_weights' =
                         StepParam("ref_policy", ref_policy_weights, grad)
                    /\ opt_state' = OptimizersStepped(opt_state, n)
                    /\ grad' = 0
                    /\ bwd_count' = 0
               ELSE UNCHANGED << weights, value_weights, opt_state, grad,
                                 bwd_count, reward_weights,
                                 ref_policy_weights >>
          /\ opt_steps' = opt_steps + n
          /\ mb_opt' = mb_opt + n
    /\ mb_sched' = mb_sched + SchedulerStepCalls(lr_scheduler)
    /\ mb_done' = TRUE
    /\ ppo_stats' = Append(ppo_stats, SumStats(batch_ppo_stats))
    /\ global_step' = global_step + 1
    /\ i' = i + ppo_batch_size
    /\ j' = 0
    /\ IF i + ppo_batch_size < batch_size
         THEN pc' = "ppo_step" /\ ppo_epoch' = ppo_epoch
         ELSE /\ ppo_epoch' = ppo_epoch + 1
              /\ pc' = IF ppo_epoch + 1 < ppo_epochs THEN "shuffle" ELSE "log"
    /\ phase' = "OPTIMIZER_STEP_AND_SCHEDULE"
    /\ UNCHANGED << rowVars, run, err, warned, resume_from_checkpoint, loaded,
                    cfgVars,
                    seed, rng, global_rng, total_steps, steps_run,
                    total_epochs, epochs_run, training_completed, curr_epoch,
                    idx, batch_start, trajectory, trajectories, rewards, advantages,
                    batch_idxs, backward_batch_idxs, storeVars, mb_bwd,
                    mb_fused, mb_raw, batch_ppo_stats, backward_passes,
                    draws, sampled,
                    ref_sampled, configured,
                    start_epoch, start_steps >>

\* self._steps_run += 1, and log_metrics when the step is a logging step.
LogMetrics ==
    /\ pc = "log"
    /\ pc' = "cleanup"
    /\ steps_run' = steps_run + 1
    /\ phase' = IF (steps_run + 1) % log_every_n_steps = 0 THEN "LOG" ELSE phase
    /\ UNCHANGED << rowVars, run, err, warned, resume_from_checkpoint, loaded,
                    cfgVars,
                    seed, rng, global_rng, total_steps, total_epochs,
                    epochs_run, global_step, localVars, modelVars, storeVars,
                    bwd_count, opt_steps, mbVars, draws, sampled, ref_sampled,
                    configured, start_epoch, start_steps >>

\* A loop that never finds training completed.
TrainingCompletedNever(steps, total) == FALSE

\* if self._steps_run == self._total_steps: training_completed = True; break.
TrainingCompleted(steps, total) == steps = total

\* cleanup_after_step (it deletes only its own local names), then the test
\* self._steps_run == self._total_steps that ends training.
Cleanup ==
    /\ pc = "cleanup"
    /\ phase' = "CLEANUP"
    /\ IF TrainingCompleted(steps_run, total_steps)
         THEN /\ training_completed' = TRUE
              /\ pc' = "epoch_end"
              /\ idx' = idx
         ELSE /\ training_completed' = training_completed
              /\ pc' = "batch_loop"
              /\ idx' = idx + 1
    /\ UNCHANGED << rowVars, run, err, warned, resume_from_checkpoint, loaded,
                    cfgVars,
                    recipeVars, curr_epoch, batch_start, trajectory, trajectories, rewards,
                    advantages, ppo_epoch, batch_idxs, i, j,
                    backward_batch_idxs, modelVars, storeVars, bwd_count,
                    opt_steps, mbVars, draws, sampled, ref_sampled, configured,
                    start_epoch, start_steps >>

(* ---------------------------- checkpointing ---------------------------- *)
\* IsIntermediate of a loop that always saves the resumption state.
IsIntermediateAlways(completed) == TRUE

\* The is_intermediate_checkpoint argument train() passes to save_checkpoint.
IsIntermediate(completed) == ~completed

\* policy_ckpt_dict as save_checkpoint builds it, called when self._epochs_run
\* is er.
PolicyCkptDict(is_intermediate_checkpoint, er) ==
    (MODEL_KEY :> weights) @@
    (IF is_intermediate_checkpoint
       THEN (SEED_KEY :> seed) @@ (EPOCHS_KEY :> er)
            @@ (TOTAL_EPOCHS_KEY :> total_epochs)
            @@ (MAX_STEPS_KEY :> total_steps) @@ (STEPS_KEY :> steps_run)
            @@ (RNG_KEY :> rng) @@ (DATALOADER_KEY :> idx)
            @@ (OPT_KEY :> OptStateDict(optimizer_in_bwd))
       ELSE EmptyDict)

\* value_ckpt_dict as save_checkpoint builds it.
ValueCkptDict == (MODEL_KEY :> value_weights)

\* The end of a dataset epoch: self._epochs_run += 1, save_checkpoint, and
\* return when training has completed.
EpochEnd ==
    /\ pc = "epoch_end"
    /\ epochs_run' = epochs_run + 1
    /\ ckpts' = Append(ckpts,
         [ epoch |-> curr_epoch,
           intermediate |-> IsIntermediate(training_completed),
           dict |-> PolicyCkptDict(IsIntermediate(training_completed),
                                   epochs_run + 1),
           run |-> run, steps_run |-> steps_run, total_steps |-> total_steps,
           steps_done |-> start_steps + Len(sampled) ])
    /\ value_ckpts' = Append(value_ckpts,
         [ epoch |-> curr_epoch, intermediate |-> FALSE,
           dict |-> ValueCkptDict, run |-> run ])
    /\ IF training_completed
         THEN pc' = "done" /\ curr_epoch' = curr_epoch
         ELSE pc' = "epoch_loop" /\ curr_epoch' = curr_epoch + 1
    /\ UNCHANGED << rowVars, run, err, warned, resume_from_checkpoint, loaded,
                    cfgVars,
                    seed, rng, global_rng, total_steps, steps_run,
                    total_epochs, global_step, training_completed, idx,
                    batch_start, trajectory, trajectories, rewards, advantages, ppo_epoch,
                    batch_idxs, i, j, backward_batch_idxs, modelVars,
                    obsVars >>

\* The recipe-state keys a checkpoint handed to a resumed recipe may lack:
\* none, or one of the keys _update_recipe_state reads.
CheckpointDamage == { {} } \cup { {key} : key \in RequiredKeys }

\* A new recipe is constructed with resume_from_checkpoint set, after train()
\* of the previous one returned: __init__ with a seed of the configuration,
\* the checkpointers pointed at an intermediate checkpoint written before
\* (or at a copy of it that lacks a recipe-state key).
Resume ==
    /\ pc = "done"
    /\ run < MaxRuns
    /\ \E k \in 1..Len(ckpts), s \in Seeds, lost \in CheckpointDamage :
         /\ ckpts[k].intermediate
         /\ loaded' = [ key \in DOMAIN ckpts[k].dict \ lost |->
                          ckpts[k].dict[key] ]
         /\ value_weights' = value_ckpts[k].dict[MODEL_KEY]
         /\ seed' = s
         /\ rng' = SeedState(s)
         /\ global_rng' = SeedState(s)
         /\ configured' = NoConfig
    /\ pc' = "constructed"
    /\ run' = run + 1
    /\ err' = "none"
    /\ warned' = FALSE
    /\ resume_from_checkpoint' = TRUE
    /\ total_steps' = 0 /\ steps_run' = 0 /\ total_epochs' = 0
    /\ epochs_run' = 0 /\ global_step' = 0
    /\ training_completed' = FALSE /\ curr_epoch' = 0 /\ idx' = 0
    /\ batch_start' = 0 /\ trajectory' = << >> /\ rewards' = << >>
    /\ advantages' = << >> /\ ppo_epoch' = 0 /\ batch_idxs' = << >>
    /\ i' = 0 /\ j' = 0 /\ backward_batch_idxs' = << >>
    /\ trajectories' = << >>
    /\ weights' = 0 /\ grad' = 0 /\ opt_state' = NoOptState
    /\ reward_weights' = 0 /\ ref_policy_weights' = 0
    /\ phase' = "NONE" /\ bwd_count' = 0 /\ opt_steps' = 0
    /\ mb_bwd' = 0 /\ mb_opt' = 0 /\ mb_sched' = 0 /\ mb_fused' = 0
    /\ mb_done' = FALSE
    /\ mb_raw' = << >> /\ batch_ppo_stats' = << >> /\ ppo_stats' = << >>
    /\ backward_passes' = << >>
    /\ draws' = {}
    /\ sampled' = << >>
    /\ ref_sampled' = IF run = 1 THEN sampled ELSE ref_sampled
    /\ start_epoch' = 0 /\ start_steps' = 0
    /\ UNCHANGED << rowVars, cfgVars, storeVars >>

\* The configurations a resumed recipe is set up with: the batch configuration
\* and the dataset of the run that wrote the checkpoint; num_steps (and the
\* seed, read by __init__) may differ from that run's.
ResumeConfigs ==
    { [ batch_size |-> batch_size,
        forward_batch_size |-> forward_batch_size,
        ppo_batch_size |-> ppo_batch_size,
        gradient_accumulation_steps |-> gradient_accumulation_steps,
        ppo_epochs |-> ppo_epochs,
        num_steps |-> n,
        dataset_rows |-> len_dataloader * batch_size,
        optimizer_in_bwd |-> optimizer_in_bwd,
        lr_scheduler |-> lr_scheduler ] : n \in 0..MaxNumSteps }

\* recipe.setup(cfg=cfg) with any configuration the recipe may be given.
SetupAny ==
    /\ pc = "constructed"
    /\ \E c \in (IF resume_from_checkpoint THEN ResumeConfigs ELSE Configs) :
         Setup(c)

Next ==
    \/ SetupAny
    \/ TrainStart
    \/ NextEpoch
    \/ NextBatch
    \/ GenerateTrajectory
    \/ GetRewards
    \/ EstimateAdvantages
    \/ Shuffle
    \/ PpoStep
    \/ OptimizerStep
    \/ LogMetrics
    \/ Cleanup
    \/ EpochEnd
    \/ Resume

Spec == Init /\ [][Next]_vars

(* ------------- one row through generate_trajectory and ppo_step --------- *)
(* The tensors of the recipe are batches of rows, and every operation below *)
(* works on each row independently (dim=1 gathers, scatters and masked      *)
(* assignments), so one row is followed.  Position p of the code (0-based)  *)
(* is index p + 1 of a sequence.                                            *)

\* The rows generation.generate may produce: max_generated_tokens tokens, each
\* a stop token ("eos") or another token ("tok").
Rows(n) == [1..n -> {"eos", "tok"}]

\* Values the reward model may give a row.
ModelScores == {2, 5}

\* cfg.min_response_length and cfg.reward_penalty of the configurations.
MinResponseLengths == {0, 2}
RewardPenalties == {0 - 3}

\* Index of the first stop token of a row, 0 when it has none.
FirstStop(row) ==
    LET stops == { k \in 1..Len(row) : row[k] = "eos" }
    IN IF stops = {} THEN 0 ELSE CHOOSE k \in stops : \A m \in stops : k <= m

\* rlhf.truncate_sequence_at_first_stop_token: the mask is true at the
\* positions after the first stop token, which become padding.
TruncateMask(row) ==
    [ k \in 1..Len(row) |-> FirstStop(row) # 0 /\ k > FirstStop(row) ]

TruncateResponses(row) ==
    [ k \in 1..Len(row) |-> IF TruncateMask(row)[k] THEN "pad" ELSE row[k] ]

\* training.get_unmasked_sequence_lengths: the position of the last token of
\* the row that is not masked (0 when every position is masked).
GetUnmaskedSequenceLengths(mask) ==
    LET valid == { k \in 1..Len(mask) : ~mask[k] }
    IN IF valid = {} THEN 0
       ELSE (CHOOSE k \in valid : \A m \in valid : m <= k) - 1

\* rlhf.get_reward_penalty_mask for a row: a row without padding has no stop
\* token before its end; a row is too short when seq_lens is below the
\* minimum response length.
GetRewardPenaltyMask(mask, sl, no_eos, min_len) ==
    \/ no_eos /\ \A k \in 1..Len(mask) : ~mask[k]
    \/ min_len # 0 /\ sl < min_len

\* t[mask] = v.
MaskedFill(t, mask, v) == [ k \in 1..Len(t) |-> IF mask[k] THEN v ELSE t[k] ]

\* Log-probabilities (never positive) of the tokens of a row under a model
\* whose weights are w, and the value estimates of the value model.
Logprobs(row, w) == [ k \in 1..Len(row) |-> 0 - (k + w) ]
ValueEstimates(row, w) == [ k \in 1..Len(row) |-> k + w + 1 ]

\* cache_ctx_manager that sets up the cache whatever the configuration says.
CacheCtxManagerAlways(enable) == "local_kv_cache"

\* self.cache_ctx_manager(enable_kv_cache, ...): the context manager the with
\* statement of generate_trajectory enters.
CacheCtxManager(enable) ==
    IF enable THEN "local_kv_cache" ELSE "nullcontext"

\* Whether the policy model holds a key-value cache after the context manager
\* is exited, by the end of the with block or by an exception: local_kv_cache
\* deletes the caches it set up (in a finally clause), nullcontext does
\* nothing.
ContextExit(manager, held) ==
    IF manager = "local_kv_cache" THEN FALSE ELSE held

\* if self._penalise_no_eos or self._min_response_length: with the penalty
\* taken only for a row that is too short.
ApplyPenaltyShortOnly(score, mask, sl, no_eos, min_len, penalty) ==
    IF (no_eos \/ min_len # 0) /\ GetRewardPenaltyMask(mask, sl, FALSE, min_len)
      THEN penalty ELSE score

\* Step 5.2 of generate_trajectory: scores[reward_penalty_mask] = penalty.
ApplyPenalty(score, mask, sl, no_eos, min_len, penalty) ==
    IF (no_eos \/ min_len # 0) /\ GetRewardPenaltyMask(mask, sl, no_eos, min_len)
      THEN penalty ELSE score

\* The shift condition without the exception for the last position.
ShiftConditionWholeRow(sl, n) == sl > 0 /\ sl < n

\* Step 6.1 of generate_trajectory, the condition of torch.where:
\* (seq_lens > 0) & (seq_lens < self._max_generated_tokens - 1).
ShiftCondition(sl, n) == sl > 0 /\ sl < n - 1

\* value_seq_idxs without the shift.
ValueSeqIdxsNoShift(sl, n) == sl

\* Step 6.1 of generate_trajectory: torch.where(condition, seq_lens + 1,
\* seq_lens).
ValueSeqIdxs(sl, n) == IF ShiftCondition(sl, n) THEN sl + 1 ELSE sl

\* context_length, the number of tokens of every prompt of the batch.
ContextLength == 2

\* The index of the gather with seq_lens taken as a count of tokens.
ScoreIndexOfCount(sl, context_length) == sl + 1 + context_length

\* Step 5.1: the position (seq_lens + context_length) at which the score of a
\* row is gathered from the output of the reward model.
ScoreIndex(sl, context_length) == sl + context_length

\* scores.gather(1, index) on an output of n positions: an index outside it
\* raises.
GatherRaises(at, n) == at < 0 \/ at >= n

\* mask.scatter_(1, index, False) on a row; an index outside the row raises.
ScatterRaises(mask, at) == at < 0 \/ at >= Len(mask)

\* A scatter that leaves the mask as it is.
ScatterNothing(mask, at) == mask

\* mask.scatter_(1, index, False) on a row whose index is in range.
ScatterFalse(mask, at) ==
    [ k \in 1..Len(mask) |-> IF k = at + 1 THEN FALSE ELSE mask[k] ]

\* rlhf.get_rewards_ppo: the per-token KL estimate logprobs - ref_logprobs.
KlEstimate(lp, rlp) == [ k \in 1..Len(lp) |-> lp[k] - rlp[k] ]

\* The mask ppo_step applies to the recomputed log-probabilities, taken from
\* the value mask.
PpoStepLogprobMaskFromValues == value_padding_masks

\* The mask ppo_step applies to the recomputed log-probabilities.
PpoStepLogprobMask == response_padding_masks

\* The configurations of a traced row: setup has run with these
\* hyperparameters, and the first training step is about to generate.
RowInit ==
    /\ RecipeInit
    /\ seed = 0 /\ gradient_accumulation_steps = 1 /\ log_every_n_steps = 1
    /\ tpc = "start" /\ train_step = 1
    /\ max_generated_tokens \in 1..MaxGen
    /\ enable_kv_cache \in BOOLEAN
    /\ penalise_no_eos \in BOOLEAN
    /\ min_response_length \in MinResponseLengths
    /\ reward_penalty \in RewardPenalties
    /\ kv_cache = FALSE /\ kv_acquired = 0
    /\ NoTensors

\* with self.cache_ctx_manager(self.enable_kv_cache, ...): entered.
EnterKvCache ==
    /\ tpc = "start"
    /\ tpc' = "generate"
    /\ LET sets_up == CacheCtxManager(enable_kv_cache) = "local_kv_cache"
       IN /\ kv_cache' = (kv_cache \/ sets_up)
          /\ kv_acquired' = kv_acquired + (IF sets_up THEN 1 ELSE 0)
    /\ UNCHANGED << loopVars, train_step, hyperVars, tensorVars >>

\* generation.generate inside the with block: it returns a row of
\* max_generated_tokens tokens and their log-probabilities, or raises.
Generate ==
    /\ tpc = "generate"
    /\ \/ \E row \in Rows(max_generated_tokens) :
            /\ generated' = row
            /\ responses' = row
            /\ logprobs' = Logprobs(row, train_step)
            /\ tpc' = "exit"
       \/ /\ tpc' = "exit_raising"
          /\ UNCHANGED << generated, responses, logprobs >>
    /\ UNCHANGED << loopVars, train_step, hyperVars, kv_cache, kv_acquired,
                    ref_logprobs, values, response_padding_masks,
                    value_padding_masks, value_seq_idxs, scores, model_score,
                    seq_lens, kl, pi_logprobs, phi_values >>

\* The with block is left, by the end of the block or by the exception.
ExitKvCache ==
    /\ tpc \in {"exit", "exit_raising"}
    /\ kv_cache' = ContextExit(CacheCtxManager(enable_kv_cache), kv_cache)
    /\ tpc' = IF tpc = "exit" THEN "ref_forward" ELSE "raised"
    /\ UNCHANGED << loopVars, train_step, hyperVars, kv_acquired, tensorVars >>

\* Step 2.1: the forward pass of the reference policy.
RefPolicyForward ==
    /\ tpc = "ref_forward"
    /\ tpc' = "value_forward"
    /\ ref_logprobs' = Logprobs(generated, 0)
    /\ UNCHANGED << loopVars, train_step, hyperVars, kv_cache, kv_acquired,
                    generated, responses, logprobs, values,
                    response_padding_masks, value_padding_masks,
                    value_seq_idxs, scores, model_score, seq_lens, kl,
                    pi_logprobs, phi_values >>

\* Step 3: the forward pass of the value model.
ValueForward ==
    /\ tpc = "value_forward"
    /\ tpc' = "truncate"
    /\ values' = ValueEstimates(generated, train_step)
    /\ UNCHANGED << loopVars, train_step, hyperVars, kv_cache, kv_acquired,
                    generated, responses, logprobs, ref_logprobs,
                    response_padding_masks, value_padding_masks,
                    value_seq_idxs, scores, model_score, seq_lens, kl,
                    pi_logprobs, phi_values >>

\* Step 4: rlhf.truncate_sequence_at_first_stop_token.
TruncateAtFirstStopToken ==
    /\ tpc = "truncate"
    /\ tpc' = "reward_forward"
    /\ response_padding_masks' = TruncateMask(generated)
    /\ responses' = TruncateResponses(generated)
    /\ UNCHANGED << loopVars, train_step, hyperVars, kv_cache, kv_acquired,
                    generated, logprobs, ref_logprobs, values,
                    value_padding_masks, value_seq_idxs, scores, model_score,
                    seq_lens, kl, pi_logprobs, phi_values >>

\* Steps 5 and 5.1: the forward pass of the reward model, seq_lens, and the
\* score gathered at position seq_lens + context_length.
RewardForward ==
    /\ tpc = "reward_forward"
    /\ LET sl == GetUnmaskedSequenceLengths(response_padding_masks)
       IN /\ seq_lens' = sl
          /\ IF GatherRaises(ScoreIndex(sl, ContextLength),
                             ContextLength + max_generated_tokens)
               THEN /\ tpc' = "raised"
                    /\ UNCHANGED << scores, model_score >>
               ELSE /\ tpc' = "penalty"
                    /\ \E x \in ModelScores :
                         scores' = x /\ model_score' = x
    /\ UNCHANGED << loopVars, train_step, hyperVars, kv_cache, kv_acquired,
                    generated, responses, logprobs, ref_logprobs, values,
                    response_padding_masks, value_padding_masks,
                    value_seq_idxs, kl, pi_logprobs, phi_values >>

\* Step 5.2: the reward penalty.
PenaliseScores ==
    /\ tpc = "penalty"
    /\ tpc' = "mask"
    /\ scores' = ApplyPenalty(scores, response_padding_masks, seq_lens,
                              penalise_no_eos, min_response_length,
                              reward_penalty)
    /\ UNCHANGED << loopVars, train_step, hyperVars, kv_cache, kv_acquired,
                    generated, responses, logprobs, ref_logprobs, values,
                    response_padding_masks, value_padding_masks,
                    value_seq_idxs, model_score, seq_lens, kl, pi_logprobs,
                    phi_values >>

\* Steps 6 and 6.1: the sentinel 1.0 in both log-probabilities, value_seq_idxs,
\* value_padding_masks and the zeroed values; then the Trajectory is returned.
MaskTrajectory ==
    /\ tpc = "mask"
    /\ logprobs' = MaskedFill(logprobs, response_padding_masks, 1)
    /\ ref_logprobs' = MaskedFill(ref_logprobs, response_padding_masks, 1)
    /\ LET at == ValueSeqIdxs(seq_lens, max_generated_tokens)
       IN /\ value_seq_idxs' = at
          /\ IF ScatterRaises(response_padding_masks, at)
               THEN /\ tpc' = "raised"
                    /\ UNCHANGED << value_padding_masks, values >>
               ELSE /\ tpc' = "returned"
                    /\ value_padding_masks' =
                         ScatterFalse(response_padding_masks, at)
                    /\ values' =
                         MaskedFill(values,
                                    ScatterFalse(response_padding_masks, at), 0)
    /\ UNCHANGED << loopVars, train_step, hyperVars, kv_cache, kv_acquired,
                    generated, responses, response_padding_masks, scores,
                    model_score, seq_lens, kl, pi_logprobs, phi_values >>

\* rlhf.get_rewards_ppo in train(): the per-token KL estimate
\* logprobs - ref_logprobs.
GetRewardsPpo ==
    /\ tpc = "returned"
    /\ tpc' = "ppo_step"
    /\ kl' = KlEstimate(logprobs, ref_logprobs)
    /\ UNCHANGED << loopVars, train_step, hyperVars, kv_cache, kv_acquired,
                    generated, responses, logprobs, ref_logprobs, values,
                    response_padding_masks, value_padding_masks,
                    value_seq_idxs, scores, model_score, seq_lens,
                    pi_logprobs, phi_values >>

\* ppo_step on the row: the log-probabilities and values of the updated
\* models, masked with the trajectory's masks.
PpoStepForward ==
    /\ tpc = "ppo_step"
    /\ tpc' = "stepped"
    /\ pi_logprobs' = MaskedFill(Logprobs(generated, train_step + 1),
                                 PpoStepLogprobMask, 1)
    /\ phi_values' = MaskedFill(ValueEstimates(generated, train_step + 1),
                                value_padding_masks, 0)
    /\ UNCHANGED << loopVars, train_step, hyperVars, kv_cache, kv_acquired,
                    generated, responses, logprobs, ref_logprobs, values,
                    response_padding_masks, value_padding_masks,
                    value_seq_idxs, scores, model_score, seq_lens, kl >>

\* The training step ends (its tensors are dropped) and the next one starts.
NextTrainingStep ==
    /\ tpc = "stepped"
    /\ train_step < MaxTrainSteps
    /\ train_step' = train_step + 1
    /\ tpc' = "start"
    /\ generated' = << >> /\ responses' = << >> /\ logprobs' = << >>
    /\ ref_logprobs' = << >> /\ values' = << >>
    /\ response_padding_masks' = << >> /\ value_padding_masks' = << >>
    /\ value_seq_idxs' = 0 /\ scores' = 0 /\ model_score' = 0 /\ seq_lens' = 0
    /\ kl' = << >> /\ pi_logprobs' = << >> /\ phi_values' = << >>
    /\ UNCHANGED << loopVars, hyperVars, kv_cache, kv_acquired >>

RowNext ==
    \/ EnterKvCache
    \/ Generate
    \/ ExitKvCache
    \/ RefPolicyForward
    \/ ValueForward
    \/ TruncateAtFirstStopToken
    \/ RewardForward
    \/ PenaliseScores
    \/ MaskTrajectory
    \/ GetRewardsPpo
    \/ PpoStepForward
    \/ NextTrainingStep

RowSpec == RowInit /\ [][RowNext]_vars

(* ======================= properties of the recipe ====================== *)

\* The keys of an intermediate policy checkpoint.
IntermediateKeys ==
    { MODEL_KEY, OPT_KEY, SEED_KEY, EPOCHS_KEY, TOTAL_EPOCHS_KEY,
      MAX_STEPS_KEY, STEPS_KEY, RNG_KEY, DATALOADER_KEY }

\* Number of minibatches of one PPO epoch.
MinibatchesPerEpoch == batch_size \div ppo_batch_size

\* C1: with optimizer_in_bwd disabled, a training step makes exactly
\* ppo_epochs * (batch_size / ppo_batch_size) optimizer steps; when the
\* optimizer is about to step, exactly gradient_accumulation_steps backward
\* passes have run since the gradients were last zeroed, and every backward
\* pass is on ppo_batch_size / gradient_accumulation_steps rows.
C1_OptimizerStepsPerTrainingStep ==
    (~optimizer_in_bwd /\ pc \notin {"constructed", "setup_failed"}) =>
      /\ pc = "optimizer_step" => bwd_count = gradient_accumulation_steps
      /\ pc = "ppo_step" => bwd_count < gradient_accumulation_steps
      /\ phase = "PPO_STEP" =>
           Len(backward_batch_idxs) * gradient_accumulation_steps
             = ppo_batch_size
      /\ pc \in {"log", "cleanup"} =>
           opt_steps = ppo_epochs * MinibatchesPerEpoch

\* C1 witness: batch of 4, minibatches of 2, 2 accumulation steps, 2 PPO
\* epochs: the training step ended after 4 optimizer steps.
C1_Witness ==
    /\ pc = "log" /\ ~optimizer_in_bwd
    /\ batch_size = 4 /\ ppo_batch_size = 2
    /\ gradient_accumulation_steps = 2 /\ ppo_epochs = 2
    /\ opt_steps = 4

\* C2 (as stated): at the end of every minibatch the loop has made exactly one
\* optimizer step and exactly one scheduler step, after the last backward pass.
C2_Original ==
    mb_done => /\ mb_bwd = gradient_accumulation_steps
               /\ mb_opt = 1
               /\ mb_sched = 1

\* C2 (amended): per minibatch, after its last microbatch backward pass, the
\* loop calls optimizer.step() exactly once when optimizer_in_bwd is disabled
\* and never when it is enabled (the update is then made inside the single
\* backward pass of the minibatch), and calls lr_scheduler.step() exactly once
\* when a scheduler is configured and never otherwise; no step of either kind
\* is made by the loop while microbatches of the minibatch remain.
C2_StepsPerMinibatch ==
    /\ mb_done =>
         /\ mb_bwd = gradient_accumulation_steps
         /\ mb_opt = (IF optimizer_in_bwd THEN 0 ELSE 1)
         /\ mb_fused = (IF optimizer_in_bwd THEN 1 ELSE 0)
         /\ mb_sched = (IF lr_scheduler THEN 1 ELSE 0)
    /\ (~mb_done /\ pc \in {"ppo_step", "optimizer_step"}) =>
         /\ mb_opt = 0
         /\ mb_sched = 0
         /\ mb_bwd <= gradient_accumulation_steps

\* C2 witness: a minibatch of two microbatches ended with one optimizer step
\* and one scheduler step.
C2_Witness ==
    /\ mb_done /\ gradient_accumulation_steps = 2 /\ lr_scheduler
    /\ mb_bwd = 2 /\ mb_opt = 1 /\ mb_sched = 1

\* The three divisibility errors of _setup_training_parameters.
DivisibilityErrors ==
    { "ValueError: batch_size / forward_batch_size",
      "ValueError: batch_size / ppo_batch_size",
      "ValueError: ppo_batch_size / gradient_accumulation_steps" }

\* C3: once setup has run, it has raised one of the divisibility ValueErrors
\* (and no training step has run) exactly when batch_size is not a multiple
\* of forward_batch_size, or not a multiple of ppo_batch_size, or
\* ppo_batch_size is not a multiple of gradient_accumulation_steps.
C3_DivisibilityValidation ==
    batch_size > 0 =>
      LET bad == \/ batch_size % forward_batch_size # 0
                 \/ batch_size % ppo_batch_size # 0
                 \/ ppo_batch_size % gradient_accumulation_steps # 0
      IN /\ bad => /\ pc = "setup_failed"
                   /\ err \in DivisibilityErrors
                   /\ steps_run = 0 /\ sampled = << >> /\ phase = "NONE"
         /\ ~bad => err \notin DivisibilityErrors

\* C3 witness: batch_size 4 with ppo_batch_size 3 was rejected.
C3_Witness ==
    /\ pc = "setup_failed"
    /\ batch_size = 4 /\ forward_batch_size = 2 /\ ppo_batch_size = 3
    /\ err = "ValueError: batch_size / ppo_batch_size"

\* C4 (as stated): train() returns only in a state where steps_run equals
\* total_steps, for every dataset size setup accepts.
C4_ReturnsAtTotalSteps ==
    (pc = "done" /\ run = 1) => steps_run = total_steps

\* C5: every policy checkpoint holds the model weights; one saved while
\* training is not complete holds exactly the model, optimizer, RNG and
\* dataloader state, seed and the four counters; the one saved when training
\* has completed holds the model only; the run has saved exactly one
\* checkpoint for each dataset epoch it has ended, in epoch order.
C5_CheckpointPerEpoch ==
    /\ \A k \in 1..Len(ckpts) :
         /\ MODEL_KEY \in DOMAIN ckpts[k].dict
         /\ ckpts[k].intermediate <=> ckpts[k].steps_run # ckpts[k].total_steps
         /\ ckpts[k].intermediate => DOMAIN ckpts[k].dict = IntermediateKeys
         /\ ~ckpts[k].intermediate => DOMAIN ckpts[k].dict = {MODEL_KEY}
    /\ Len(value_ckpts) = Len(ckpts)
    /\ LET mine == {k \in 1..Len(ckpts) : ckpts[k].run = run}
       IN /\ Cardinality(mine) = epochs_run - start_epoch
          /\ \A k \in mine :
               ckpts[k].epoch = start_epoch + Cardinality({m \in mine : m < k})

\* C5 witness: a run of two dataset epochs of two training steps each has
\* returned, with one intermediate and one final checkpoint.
C5_Witness ==
    /\ pc = "done" /\ run = 1 /\ steps_run = 4
    /\ Len(ckpts) = 2 /\ ckpts[1].intermediate /\ ~ckpts[2].intermediate

\* C6 (as stated): in a run resumed from an intermediate checkpoint with the
\* same configuration, every training step samples the actions the
\* uninterrupted run sampled in that step.
C6_RoundTrip ==
    (run > 1 /\ ~warned) =>
      \A k \in 1..Len(sampled) :
        start_steps + k <= Len(ref_sampled) =>
          sampled[k] = ref_sampled[start_steps + k]

\* C7 (as stated): every random draw of training comes from the recipe's
\* seeded generator _rng, whose state the intermediate checkpoint persists.
C7_SingleSeededGenerator ==
    \A d \in draws : d.gen = "_rng"

\* C8: at a training-step boundary global_step equals steps_run * ppo_epochs
\* * (batch_size // ppo_batch_size), and inside a training step it exceeds
\* that value by the number of minibatches completed so far in the step.
C8_GlobalStep ==
    pc \notin {"constructed", "setup_failed"} =>
      LET base == steps_run * ppo_epochs * MinibatchesPerEpoch
          completed ==
            IF pc \in {"ppo_step", "optimizer_step"}
              THEN ppo_epoch * MinibatchesPerEpoch + (i \div ppo_batch_size)
            ELSE IF pc \in {"shuffle", "log"}
              THEN ppo_epoch * MinibatchesPerEpoch
            ELSE 0
      IN global_step = base + completed

\* C8 witness: a resumed run has completed a training step of two minibatches
\* per PPO epoch.
C8_Witness ==
    /\ run = 2 /\ pc = "cleanup" /\ MinibatchesPerEpoch = 2
    /\ steps_run > start_steps /\ start_steps > 0

\* The order of the phases of a training step.
PhaseSuccessors ==
    { << "NONE", "GENERATE" >>,
      << "GENERATE", "COMPUTE_REWARDS" >>,
      << "COMPUTE_REWARDS", "ESTIMATE_ADVANTAGES" >>,
      << "ESTIMATE_ADVANTAGES", "PPO_STEP" >>,
      << "PPO_STEP", "OPTIMIZER_STEP_AND_SCHEDULE" >>,
      << "OPTIMIZER_STEP_AND_SCHEDULE", "PPO_STEP" >>,
      << "OPTIMIZER_STEP_AND_SCHEDULE", "LOG" >>,
      << "OPTIMIZER_STEP_AND_SCHEDULE", "CLEANUP" >>,
      << "LOG", "CLEANUP" >>,
      << "CLEANUP", "NONE" >> }

\* C9: the phases of a training step follow each other in the order generate,
\* rewards, advantages, PPO steps and optimizer steps, log (when due),
\* cleanup: rewards are computed on the trajectory of the whole batch, a PPO
\* step runs only with the advantages of the current trajectory, the log and
\* the cleanup come after all PPO epochs, and the next training step starts
\* only after cleanup.
C9_PhaseOrder ==
    [][ /\ phase' # phase => << phase, phase' >> \in PhaseSuccessors
        /\ (phase' = "COMPUTE_REWARDS" /\ phase # phase') =>
             Len(trajectory') = batch_size
        /\ phase' = "PPO_STEP" =>
             /\ Len(trajectory') = batch_size
             /\ rewards' = trajectory'
             /\ advantages' = trajectory'
        /\ (phase' \in {"LOG", "CLEANUP"} /\ phase # phase') =>
             ppo_epoch' = ppo_epochs
        /\ (phase = "OPTIMIZER_STEP_AND_SCHEDULE" /\ phase' = "CLEANUP") =>
             steps_run' % log_every_n_steps # 0
        /\ (pc = "log" /\ steps_run' % log_every_n_steps = 0) =>
             phase' = "LOG"
      ]_vars

\* C9 witness: the second training step, a logging step, has been cleaned up.
C9_Witness ==
    /\ phase = "CLEANUP" /\ steps_run = 2 /\ log_every_n_steps = 2
    /\ ppo_epochs = 2 /\ batch_size > forward_batch_size

MissingKeysMessage ==
    "KeyError: Checkpoint does not contain the required keys needed for updating recipe state."

\* C11 (as stated): when a resumed recipe reaches _update_recipe_state with a
\* checkpoint that lacks one of the required keys, setup fails with a
\* KeyError carrying the missing-keys message, and no training step runs.
C11_MissingKeysKeyError ==
    ( /\ resume_from_checkpoint
      /\ ~(RequiredKeys \subseteq DOMAIN loaded)
      /\ pc # "constructed"
      /\ err # "ValueError: num_steps" ) =>
        /\ pc = "setup_failed"
        /\ err = MissingKeysMessage
        /\ sampled = << >>

\* C12: once setup has run with gradient_accumulation_steps > 1 and
\* optimizer_in_bwd set, it has raised an error and no training step has run;
\* the error of this check is raised exactly when both hold and the
\* divisibility checks before it pass, so gradient_accumulation_steps = 1
\* with optimizer_in_bwd, and optimizer_in_bwd unset, are never rejected by it.
C12_GradAccumWithOptimizerInBwd ==
    batch_size > 0 =>
      LET both == gradient_accumulation_steps > 1 /\ optimizer_in_bwd
          divisible == /\ batch_size % forward_batch_size = 0
                       /\ batch_size % ppo_batch_size = 0
                       /\ ppo_batch_size % gradient_accumulation_steps = 0
          raised == err = "RuntimeError: gradient accumulation with optimizer in bwd"
      IN /\ both => /\ pc = "setup_failed"
                    /\ err \in EarlyErrors
                    /\ steps_run = 0 /\ sampled = << >> /\ phase = "NONE"
         /\ raised <=> (both /\ divisible)

\* C12 witness: 2 accumulation steps with optimizer_in_bwd were rejected with
\* the RuntimeError of this check.
C12_Witness ==
    /\ pc = "setup_failed"
    /\ gradient_accumulation_steps = 2 /\ optimizer_in_bwd
    /\ batch_size = 2 /\ forward_batch_size = 2 /\ ppo_batch_size = 2
    /\ err = "RuntimeError: gradient accumulation with optimizer in bwd"

\* C13: when setup has run, it has raised the num_steps ValueError exactly
\* when the checks before it pass and num_steps < batch_size; a configuration
\* it accepted has num_steps >= batch_size and total_steps = num_steps //
\* batch_size >= 1 (the value the recipe keeps unless a checkpoint overwrites
\* it).
C13_StepBudget ==
    pc \in {"train", "setup_failed"} =>
      LET before == err \in EarlyErrors
          small == configured.num_steps < batch_size
      IN /\ err = "ValueError: num_steps" <=> (~before /\ small)
         /\ pc = "train" =>
              /\ configured.num_steps >= batch_size
              /\ configured.total_steps = configured.num_steps \div batch_size
              /\ configured.total_steps >= 1
              /\ ~resume_from_checkpoint => total_steps = configured.total_steps

\* C13 witness: a budget of exactly one batch was accepted with total_steps 1.
C13_Witness ==
    /\ pc = "train" /\ ~resume_from_checkpoint
    /\ batch_size = 3 /\ configured.num_steps = 3 /\ total_steps = 1

\* C19: right after a minibatch ends, one PPOStats has been returned by
\* ppo_step for each of its gradient_accumulation_steps microbatches, every
\* field of each is what the loss function (or the KL estimate) produced
\* divided by gradient_accumulation_steps exactly once, and the PPOStats
\* recorded for the minibatch is their element-wise sum.
C19_StatsSum ==
    phase = "OPTIMIZER_STEP_AND_SCHEDULE" =>
      /\ Len(mb_raw) = gradient_accumulation_steps
      /\ Len(batch_ppo_stats) = gradient_accumulation_steps
      /\ \A k \in 1..Len(batch_ppo_stats) : \A f \in StatFields :
           batch_ppo_stats[k][f] * gradient_accumulation_steps = mb_raw[k][f]
      /\ ppo_stats # << >>
      /\ \A f \in StatFields :
           /\ ppo_stats[Len(ppo_stats)][f] =
                SumSeq([k \in 1..Len(batch_ppo_stats) |-> batch_ppo_stats[k][f]])
           /\ ppo_stats[Len(ppo_stats)][f] * gradient_accumulation_steps =
                SumSeq([k \in 1..Len(mb_raw) |-> mb_raw[k][f]])

\* C19 witness: the second minibatch of a PPO epoch, of two microbatches, has
\* been recorded.
C19_Witness ==
    /\ phase = "OPTIMIZER_STEP_AND_SCHEDULE"
    /\ gradient_accumulation_steps = 2
    /\ Len(batch_ppo_stats) = 2 /\ Len(ppo_stats) = 2
    /\ ppo_stats[2]["loss"] > ppo_stats[2]["policy_loss"]

\* C20: the reward model and the reference policy have their gradients
\* disabled and are in no optimizer, and from setup on their parameters are
\* the ones loaded from their checkpoints, whatever the training loop did.
C20_FrozenModels ==
    /\ {"reward", "ref_policy"} \subseteq FrozenModels
    /\ OptimizedModels \cap {"reward", "ref_policy"} = {}
    /\ pc # "constructed" =>
         /\ reward_weights = RewardCheckpoint
         /\ ref_policy_weights = RefPolicyCheckpoint

\* C20 witness: training has returned after optimizer steps that changed the
\* policy and the value model.
C20_Witness ==
    /\ pc = "done" /\ opt_state["policy"] > 1
    /\ weights # 0 /\ value_weights # 0
    /\ reward_weights = RewardCheckpoint
    /\ ref_policy_weights = RefPolicyCheckpoint

\* The counters of the recipe state, and the recipe state with the state of
\* the generator self._rng.
RecipeCounters ==
    << seed, steps_run, total_steps, epochs_run, total_epochs, global_step >>
RecipeState == << RecipeCounters, rng >>

\* C21 as stated: a call of generate_trajectory, generate_trajectory_batched,
\* ppo_step, log_metrics or save_checkpoint leaves every field of the recipe
\* state unchanged, the RNG state included (steps_run and epochs_run are
\* incremented by the loop around log_metrics and save_checkpoint).
C21_Original ==
    [][ /\ pc \in {"generate", "ppo_step"} => RecipeState' = RecipeState
        /\ pc = "log" =>
             RecipeState' = << << seed, steps_run + 1, total_steps, epochs_run,
                                 total_epochs, global_step >>, rng >>
        /\ pc = "epoch_end" =>
             RecipeState' = << << seed, steps_run, total_steps, epochs_run + 1,
                                 total_epochs, global_step >>, rng >>
      ]_vars

\* C21: a call of ppo_step, log_metrics or save_checkpoint leaves every field
\* of the recipe state unchanged (the loop increments steps_run before
\* log_metrics and epochs_run before save_checkpoint); a call of
\* generate_trajectory leaves the counters unchanged and advances the state of
\* the generator _rng, from which generation samples; the counters change
\* only in setup (with the resume path) and in the training loop.
C21_RecipeStateFrame ==
    [][ /\ pc = "generate" =>
             RecipeCounters' = RecipeCounters /\ rng' # rng
        /\ pc = "ppo_step" => RecipeState' = RecipeState
        /\ pc = "log" =>
             RecipeState' = << << seed, steps_run + 1, total_steps, epochs_run,
                                 total_epochs, global_step >>, rng >>
        /\ pc = "epoch_end" =>
             RecipeState' = << << seed, steps_run, total_steps, epochs_run + 1,
                                 total_epochs, global_step >>, rng >>
        /\ RecipeCounters' # RecipeCounters =>
             pc \in {"constructed", "optimizer_step", "log", "epoch_end",
                      "done"}
      ]_vars

\* C21 witness: after two training steps (one of them logged) and a saved
\* checkpoint, the generator is not in the state the seed gave it.
C21_Witness ==
    /\ run = 1 /\ pc = "epoch_loop" /\ Len(ckpts) = 1
    /\ steps_run = 2 /\ log_every_n_steps = 2
    /\ rng # SeedState(seed)

\* The calls of generate_trajectory (by position in trajectories) that were
\* given row r of the batch.
CallsOnRow(r) ==
    { c \in 1..Len(trajectories) :
        \E k \in 1..Len(trajectories[c].rows) : trajectories[c].rows[k] = r }

\* C22: when generate_trajectory_batched returns, it has called
\* generate_trajectory exactly batch_size / forward_batch_size times, the
\* c-th call on the forward_batch_size consecutive rows that start at row
\* (c - 1) * forward_batch_size, with gradients disabled; every row of the
\* batch was given to exactly one call, and the returned Trajectory has
\* batch_size rows, row r being what the call on row r produced for it.
C22_BatchedGeneration ==
    pc = "rewards" =>
      /\ Len(trajectories) * forward_batch_size = batch_size
      /\ \A c \in 1..Len(trajectories) :
           /\ trajectories[c].rows =
                [ k \in 1..forward_batch_size |->
                    (c - 1) * forward_batch_size + k - 1 ]
           /\ Len(trajectories[c].tokens) = forward_batch_size
           /\ ~trajectories[c].grad_enabled
      /\ \A r \in 0..(batch_size - 1) : Cardinality(CallsOnRow(r)) = 1
      /\ Len(trajectory) = batch_size
      /\ \A r \in 0..(batch_size - 1) :
           LET c == (r \div forward_batch_size) + 1
           IN /\ trajectory[r + 1] =
                   trajectories[c].tokens[(r % forward_batch_size) + 1]
              /\ trajectory[r + 1] =
                   SampleToken(trajectories[c].rng, weights,
                               idx * batch_size + r)

\* C22 witness: a batch of four rows was generated in two calls of two rows.
C22_Witness ==
    /\ pc = "rewards" /\ batch_size = 4 /\ forward_batch_size = 2
    /\ Len(trajectories) = 2 /\ Len(trajectory) = 4
    /\ trajectories[2].rows = << 2, 3 >>

\* The backward passes of PPO epoch e of the current training step that used
\* row r of the trajectory, as (call, position in the microbatch) pairs.
PassesOnRow(e, r) ==
    { << c, k >> \in (1..Len(backward_passes)) \X (1..MaxBatch) :
        /\ backward_passes[c].ppo_epoch = e
        /\ k <= Len(backward_passes[c].rows)
        /\ backward_passes[c].rows[k] = r }

\* The rows of the minibatch that starts at position m of the permutation of
\* PPO epoch e, over its backward passes so far.
MinibatchRows(e, m) ==
    { << c, k >> \in (1..Len(backward_passes)) \X (1..MaxBatch) :
        /\ backward_passes[c].ppo_epoch = e
        /\ backward_passes[c].i = m
        /\ k <= Len(backward_passes[c].rows) }

\* C23: in each PPO epoch of a training step batch_idxs is a permutation of
\* 0..batch_size-1 and every row index is used in exactly one backward pass
\* (one microbatch of one minibatch), so a training step uses every row in
\* exactly ppo_epochs backward passes; every microbatch has ppo_batch_size /
\* gradient_accumulation_steps rows and every minibatch ppo_batch_size rows.
C23_PermutedPartition ==
    pc \in {"ppo_step", "optimizer_step", "shuffle", "log", "cleanup"} =>
      /\ pc \in {"ppo_step", "optimizer_step"} =>
           /\ Len(batch_idxs) = batch_size
           /\ \A r \in 0..(batch_size - 1) :
                \E k \in 1..batch_size : batch_idxs[k] = r
      /\ \A c \in 1..Len(backward_passes) :
           /\ Len(backward_passes[c].rows) * gradient_accumulation_steps
                = ppo_batch_size
           /\ \A k \in 1..Len(backward_passes[c].rows) :
                backward_passes[c].rows[k] \in 0..(batch_size - 1)
      /\ \A r \in 0..(batch_size - 1) :
           /\ \A e \in 0..(ppo_epoch - 1) : Cardinality(PassesOnRow(e, r)) = 1
           /\ Cardinality(PassesOnRow(ppo_epoch, r)) <= 1
      /\ \A e \in 0..(ppo_epoch - 1) :
           \A m \in { x \in 0..(batch_size - 1) : x % ppo_batch_size = 0 } :
             Cardinality(MinibatchRows(e, m)) = ppo_batch_size
      /\ pc \in {"log", "cleanup"} =>
           /\ ppo_epoch = ppo_epochs
           /\ \A r \in 0..(batch_size - 1) :
                Cardinality(UNION { PassesOnRow(e, r) : e \in 0..(ppo_epochs - 1) })
                  = ppo_epochs

\* C23 witness: a training step of two PPO epochs over four rows, in
\* minibatches of two rows and microbatches of one, has made its eight
\* backward passes.
C23_Witness ==
    /\ pc = "log" /\ batch_size = 4 /\ ppo_batch_size = 2
    /\ gradient_accumulation_steps = 2 /\ ppo_epochs = 2
    /\ Len(backward_passes) = 8

\* C24 (as stated): when train() of a fresh run has returned, save_checkpoint
\* was called exactly once for each dataset epoch entered, in epoch order;
\* every call but the last was an intermediate checkpoint and the last was
\* not; when total_steps is fewer than the batches of a dataset epoch exactly
\* one checkpoint was written, and it is not intermediate.
C24_CheckpointsOfFreshRun ==
    (pc = "done" /\ run = 1) =>
      /\ Len(ckpts) = epochs_run
      /\ Len(ckpts) >= 1
      /\ \A k \in 1..Len(ckpts) :
           /\ ckpts[k].epoch = k - 1
           /\ ckpts[k].intermediate <=> k < Len(ckpts)
      /\ total_steps < len_dataloader =>
           Len(ckpts) = 1 /\ ~ckpts[1].intermediate

\* The checkpoints written by the current run, by position in ckpts.
OwnCheckpoints == { k \in 1..Len(ckpts) : ckpts[k].run = run }

\* C25 (as stated): the intermediate checkpoint written at the end of dataset
\* epoch e records epochs_run = e + 1 and steps_run = the number of training
\* steps completed so far; a run resumed from it starts its loop at dataset
\* epoch e + 1 and, when it has returned, has run every later dataset epoch
\* exactly once, and the training steps of the checkpoint and of the resumed
\* run together are total_steps.
C25_ResumeAtNextEpoch ==
    /\ \A k \in 1..Len(ckpts) :
         ckpts[k].intermediate =>
           /\ ckpts[k].dict[EPOCHS_KEY] = ckpts[k].epoch + 1
           /\ ckpts[k].dict[STEPS_KEY] = ckpts[k].steps_done
    /\ (run > 1 /\ pc \notin {"constructed", "setup_failed", "train"}) =>
         /\ start_epoch = loaded[EPOCHS_KEY]
         /\ curr_epoch >= start_epoch
         /\ \A k \in OwnCheckpoints :
              ckpts[k].epoch =
                start_epoch + Cardinality({ m \in OwnCheckpoints : m < k })
    /\ (run > 1 /\ pc = "done") =>
         /\ { ckpts[k].epoch : k \in OwnCheckpoints } =
              loaded[EPOCHS_KEY]..(total_epochs - 1)
         /\ loaded[STEPS_KEY] + Len(sampled) = total_steps

\* C26: in every state of a run, fresh or resumed from a checkpoint the recipe
\* wrote, steps_run <= total_steps and epochs_run <= total_epochs; within a
\* run steps_run never decreases, and during train() it changes only at the
\* end of a training step, by exactly one.
C26_CountersBounded ==
    /\ [](RequiredKeys \subseteq DOMAIN loaded \/ ~resume_from_checkpoint =>
            /\ steps_run <= total_steps
            /\ epochs_run <= total_epochs)
    /\ [][ run' = run =>
             /\ steps_run' >= steps_run
             /\ pc = "log" => steps_run' = steps_run + 1
             /\ (pc # "constructed" /\ steps_run' # steps_run) => pc = "log"
        ]_vars

\* C26 witness: a resumed run has returned after running the training steps
\* the checkpoint left, with both counters at their totals.
C26_Witness ==
    /\ run = 2 /\ pc = "done" /\ start_steps > 0
    /\ steps_run > start_steps /\ steps_run = total_steps
    /\ epochs_run = total_epochs

\* C27: after setup, lr_steps (the num_training_steps the scheduler is made
\* with) is total_steps * ppo_epochs * (batch_size // ppo_batch_size) and
\* global_step, which counts the scheduler steps, never exceeds it; the two
\* are equal exactly when training has completed, that is from the last
\* minibatch of the last training step on, in a fresh and in a resumed run.
C27_SchedulerSteps ==
    pc \notin {"constructed", "setup_failed"} =>
      /\ lr_steps = total_steps * ppo_epochs * MinibatchesPerEpoch
      /\ global_step <= lr_steps
      /\ global_step = lr_steps <=>
           \/ steps_run = total_steps
           \/ pc = "log" /\ steps_run + 1 = total_steps
      /\ training_completed => global_step = lr_steps

\* C27 witness: a resumed run with a scheduler and two minibatches per PPO
\* epoch has returned with global_step equal to lr_steps.
C27_Witness ==
    /\ run = 2 /\ pc = "done" /\ lr_scheduler /\ MinibatchesPerEpoch = 2
    /\ start_steps > 0 /\ steps_run > start_steps
    /\ global_step = lr_steps

\* C28 (as stated): with optimizer_in_bwd, the optimizer state written to an
\* intermediate checkpoint covers the per-parameter optimizers of the policy
\* model and of the value model, and a recipe resumed from it starts with the
\* optimizer state of both as the checkpointed run left them.
C28_InBwdOptimizerState ==
    optimizer_in_bwd =>
      /\ \A k \in 1..Len(ckpts) :
           ckpts[k].intermediate =>
             DOMAIN ckpts[k].dict[OPT_KEY] = OptimizedModels
      /\ (resume_from_checkpoint /\ pc = "train") =>
           \A m \in OptimizedModels :
             opt_state[m] =
               loaded[STEPS_KEY] * ppo_epochs * MinibatchesPerEpoch

(* ================= properties of a row of a trajectory ================= *)

\* The positions of a training step at which the with block of
\* generate_trajectory is open.
InGeneration == tpc \in {"generate", "exit", "exit_raising"}

\* C14: the key-value cache is held only during the policy generation call of
\* generate_trajectory: with enable_kv_cache it is set up when the with block
\* is entered and held until the block is left, it is released when generation
\* returns and when generation raises, it is never held during the reference,
\* value or reward forward passes, during ppo_step or between training steps,
\* and without enable_kv_cache no cache is ever set up.
C14_KvCacheScoped ==
    /\ kv_cache => (enable_kv_cache /\ InGeneration)
    /\ (enable_kv_cache /\ InGeneration) => kv_cache
    /\ ~enable_kv_cache => kv_acquired = 0
    /\ enable_kv_cache =>
          kv_acquired = (IF tpc = "start" THEN train_step - 1 ELSE train_step)

\* Generation raised in the second training step with the cache enabled: the
\* cache was set up in both steps and is released.
C14_Witness ==
    /\ tpc = "raised" /\ train_step = MaxTrainSteps
    /\ enable_kv_cache /\ kv_acquired = MaxTrainSteps /\ ~kv_cache

\* The positions of a training step at which generate_trajectory has returned
\* the Trajectory of the row.
TrajectoryBuilt == tpc \in {"returned", "ppo_step", "stepped"}

\* The positions of a row at which the two masks differ.
MaskDiff ==
    { k \in 1..Len(generated) :
        value_padding_masks[k] # response_padding_masks[k] }

\* The response mask with its first true position cleared.
FirstTrueCleared(mask) ==
    LET trues == { k \in 1..Len(mask) : mask[k] }
    IN [ k \in 1..Len(mask) |->
           mask[k] /\ \E m \in trues : m < k ]

\* C15: in every trajectory, value_padding_masks is never true where
\* response_padding_masks is false, the two masks differ in at most one
\* position, and value_padding_masks is response_padding_masks or
\* response_padding_masks with its first true position cleared: the first
\* true position is cleared exactly when 0 < seq_lens < max_generated_tokens
\* - 1, wherever the first stop token is (position 0, the last two
\* positions, or nowhere).
C15_ValueMaskOneLater ==
    TrajectoryBuilt =>
      /\ Len(value_padding_masks) = max_generated_tokens
      /\ Len(response_padding_masks) = max_generated_tokens
      /\ \A k \in 1..max_generated_tokens :
            value_padding_masks[k] => response_padding_masks[k]
      /\ Cardinality(MaskDiff) <= 1
      /\ IF seq_lens > 0 /\ seq_lens < max_generated_tokens - 1
           THEN /\ value_padding_masks =
                     FirstTrueCleared(response_padding_masks)
                /\ MaskDiff = {seq_lens + 2}
           ELSE value_padding_masks = response_padding_masks

\* A row of four tokens whose first stop token is at position 1: the response
\* mask is true at positions 2 and 3, the value mask only at position 3.
C15_Witness ==
    /\ tpc = "returned"
    /\ max_generated_tokens = MaxGen
    /\ FirstStop(generated) = 2
    /\ Cardinality(MaskDiff) = 1
    /\ value_padding_masks = FirstTrueCleared(response_padding_masks)

\* C16 as stated: a row without a stop token has seq_lens equal to
\* max_generated_tokens.
C16_Original ==
    (TrajectoryBuilt /\ FirstStop(generated) = 0) =>
      /\ seq_lens = max_generated_tokens
      /\ \A k \in 1..max_generated_tokens : ~response_padding_masks[k]
      /\ value_seq_idxs = seq_lens

\* C16: for a row that generates no stop token within max_generated_tokens,
\* the trajectory is built with seq_lens equal to max_generated_tokens - 1
\* (the position of the last generated token), response_padding_masks false
\* at every position, and value_seq_idxs equal to seq_lens (no +1 shift).
C16_NoStopToken ==
    /\ (TrajectoryBuilt /\ FirstStop(generated) = 0) =>
         /\ seq_lens = max_generated_tokens - 1
         /\ \A k \in 1..max_generated_tokens : ~response_padding_masks[k]
         /\ value_seq_idxs = seq_lens
    /\ (tpc = "raised" /\ generated # << >>) => FirstStop(generated) # 0

\* A row of four tokens without a stop token, returned in a trajectory.
C16_Witness ==
    /\ tpc = "returned"
    /\ max_generated_tokens = MaxGen
    /\ FirstStop(generated) = 0
    /\ seq_lens = MaxGen - 1
    /\ value_seq_idxs = MaxGen - 1

\* A row of the trajectory has no padded position: it has no stop token
\* before its last position.
NoPadding == \A k \in 1..Len(response_padding_masks) : ~response_padding_masks[k]

\* C17 as stated: with penalise_no_eos, every row whose seq_lens is 0 has the
\* reward penalty as its score.
C17_Original ==
    (TrajectoryBuilt /\ penalise_no_eos /\ seq_lens = 0) =>
      scores = reward_penalty

\* C17: with penalise_no_eos, the final score of every row without a padded
\* position (no stop token before the last position of the response) is the
\* configured reward_penalty, whatever the reward model returned; a row whose
\* seq_lens is 0 because its first token is a stop token followed by padding
\* keeps the reward model's score unless min_response_length is configured.
C17_PenaliseNoEos ==
    /\ (TrajectoryBuilt /\ penalise_no_eos /\ NoPadding) =>
         scores = reward_penalty
    /\ (TrajectoryBuilt /\ seq_lens = 0 /\ ~NoPadding
          /\ min_response_length = 0) =>
         scores = model_score

\* A row of four tokens without a stop token, to which the reward model gave
\* 5, is returned with the reward penalty as its score.
C17_Witness ==
    /\ tpc = "returned"
    /\ penalise_no_eos /\ min_response_length = 0
    /\ max_generated_tokens = MaxGen
    /\ FirstStop(generated) = 0
    /\ model_score = 5 /\ model_score # reward_penalty
    /\ scores = reward_penalty

\* C18: at every position where response_padding_masks is true, logprobs and
\* ref_logprobs of the trajectory both hold the sentinel 1.0, so the per-token
\* KL estimate logprobs - ref_logprobs given to the reward computation is 0
\* there; and the log-probabilities recomputed by ppo_step are 1.0 there, so
\* new minus old log-probability is 0 at every masked position.
C18_SentinelMasked ==
    /\ TrajectoryBuilt =>
         \A k \in 1..max_generated_tokens :
           response_padding_masks[k] =>
             logprobs[k] = 1 /\ ref_logprobs[k] = 1
    /\ tpc \in {"ppo_step", "stepped"} =>
         \A k \in 1..max_generated_tokens :
           response_padding_masks[k] => kl[k] = 0
    /\ tpc = "stepped" =>
         \A k \in 1..max_generated_tokens :
           response_padding_masks[k] =>
             pi_logprobs[k] = 1 /\ pi_logprobs[k] - logprobs[k] = 0

\* After ppo_step on a row with two masked positions, where the policy's
\* log-probabilities changed at the positions that are not masked.
C18_Witness ==
    /\ tpc = "stepped"
    /\ max_generated_tokens = MaxGen
    /\ Cardinality({ k \in 1..MaxGen : response_padding_masks[k] }) = 2
    /\ \A k \in 1..MaxGen :
         IF response_padding_masks[k]
           THEN kl[k] = 0 /\ pi_logprobs[k] - logprobs[k] = 0
           ELSE kl[k] # 0 /\ pi_logprobs[k] - logprobs[k] # 0

\* The positions of a training step at which the score of the row has been
\* gathered from the output of the reward model.
ScoreGathered == tpc \in {"penalty", "mask"} \/ TrajectoryBuilt

\* C29: for every row and every generation outcome, the index seq_lens +
\* context_length at which the reward score is read is the position of the
\* row's last valid token (its first stop token, or its last token when it
\* has none) and is an index into the reward model's output: it is at least
\* context_length and at most context_length + max_generated_tokens - 1, and
\* the gather never raises.
C29_ScoreIndexInRange ==
    /\ ScoreGathered =>
         LET at == ScoreIndex(seq_lens, ContextLength)
             p == at - ContextLength
         IN /\ at >= ContextLength
            /\ at <= ContextLength + max_generated_tokens - 1
            /\ ~response_padding_masks[p + 1]
            /\ \A k \in (p + 2)..max_generated_tokens :
                 response_padding_masks[k]
            /\ p = IF FirstStop(generated) = 0
                     THEN max_generated_tokens - 1
                     ELSE FirstStop(generated) - 1
    /\ tpc = "raised" => generated = << >>

\* C29 witness: the score of a row of four tokens without a stop token was
\* read at the last position of the reward model's output.
C29_Witness ==
    /\ tpc = "penalty" /\ max_generated_tokens = MaxGen
    /\ FirstStop(generated) = 0
    /\ ScoreIndex(seq_lens, ContextLength) = ContextLength + MaxGen - 1

\* C30 as stated: the position value_seq_idxs is valid in value_padding_masks
\* and valid in the mask given to advantage estimation, the negation of
\* response_padding_masks.
C30_Original ==
    TrajectoryBuilt =>
      /\ ~value_padding_masks[value_seq_idxs + 1]
      /\ ~response_padding_masks[value_seq_idxs + 1]

\* C30: the position value_seq_idxs, at which the terminal score is added, is
\* valid in value_padding_masks; it is valid in the negation of
\* response_padding_masks exactly when no shift was applied, and with the
\* shift (0 < seq_lens < max_generated_tokens - 1) it is the first padded
\* position of response_padding_masks, one after the last valid token.
C30_TerminalScorePosition ==
    TrajectoryBuilt =>
      /\ value_seq_idxs \in 0..(max_generated_tokens - 1)
      /\ ~value_padding_masks[value_seq_idxs + 1]
      /\ ~response_padding_masks[seq_lens + 1]
      /\ IF ShiftCondition(seq_lens, max_generated_tokens)
           THEN /\ value_seq_idxs = seq_lens + 1
                /\ response_padding_masks[value_seq_idxs + 1]
                /\ \A k \in 1..value_seq_idxs : ~response_padding_masks[k]
           ELSE /\ value_seq_idxs = seq_lens
                /\ ~response_padding_masks[value_seq_idxs + 1]

\* C30 witness: a row of four tokens whose stop token is at position 1 has
\* its terminal score at position 2, which response_padding_masks marks as
\* padding and value_padding_masks does not.
C30_Witness ==
    /\ tpc = "returned" /\ max_generated_tokens = MaxGen
    /\ FirstStop(generated) = 2
    /\ value_seq_idxs = 2
    /\ response_padding_masks[3] /\ ~value_padding_masks[3]

====
